---- MODULE Spec2Model ----
(***************************************************************************)
(* A model of the SGF reader of jarednogo/rustsgf: the scanner             *)
(* (src/src/scanner.rs), the recursive-descent parser (src/src/parser.rs)  *)
(* and the tree with its transforms (src/ast/src/vertex.rs).               *)
(*                                                                         *)
(* A text is a sequence of characters, a character a one-element string.   *)
(* The character NUL (code 0), the grave accent and one character outside  *)
(* ASCII are named, since a TLA+ string cannot hold them.                  *)
(***************************************************************************)
EXTENDS Integers, Sequences, FiniteSets, TLC

VARIABLES
    source,     \* the text given first
    input,      \* the text being read: source, then the rendered tree
    pc,         \* new, ready, no_parser, parsed, displayed, stripped
    round,      \* 1 for source, 2 for the rendered tree
    tokens,     \* the parser's token list
    result,     \* what parse returned
    text,       \* the rendered collection
    first,      \* the collection parsed from source
    key,        \* the key given to strip_key
    stripped,   \* the game trees strip_key returned
    scanner,    \* the Scanner, when its calls are followed one by one
    scanned,    \* the token list scan is building
    locals,     \* char_vec and upper of the scan_* call in progress
    pcur,       \* the Parser's cursor, when its calls are followed one by one
    stack,      \* the calls of the parser's rules in progress, innermost last
    ret         \* what the last call returned

\* the variables of the run seen as a whole
wholeVars == <<source, input, pc, round, tokens, result, text, first, key, stripped>>

\* the variables of the run followed call by call
stepVars == <<scanner, scanned, locals, pcur, stack, ret>>

vars == <<source, input, pc, round, tokens, result, text, first, key, stripped,
          scanner, scanned, locals, pcur, stack, ret>>

----------------------------------------------------------------------------
(* Characters *)

NUL == "NUL"

NonAscii == "U+00E9"

\* the grave accent (code 96), which a TLA+ string cannot hold either
Backtick == "U+0060"

Digits == {"0", "1", "2", "3", "4", "5", "6", "7", "8", "9"}

UpperLetters ==
    {"A", "B", "C", "D", "E", "F", "G", "H", "I", "J", "K", "L", "M",
     "N", "O", "P", "Q", "R", "S", "T", "U", "V", "W", "X", "Y", "Z"}

LowerLetters ==
    {"a", "b", "c", "d", "e", "f", "g", "h", "i", "j", "k", "l", "m",
     "n", "o", "p", "q", "r", "s", "t", "u", "v", "w", "x", "y", "z"}

\* every printable ASCII character that scan_token's earlier arms do not take
OtherAscii ==
    {"!", "\"", "#", "$", "%", "&", "'", "*", "+", ",", "-", ".", "/", ":",
     "<", "=", ">", "?", "@", "^", Backtick, "{", "|", "}", "~"}

is_digit(c) == c \in Digits

is_identifier_start(c) == c \in LowerLetters \/ c \in UpperLetters \/ c = "_"

is_identifier(c) == is_digit(c) \/ is_identifier_start(c)

----------------------------------------------------------------------------
(* Positions and tokens *)

Position(r, c) == [row |-> r, col |-> c]

\* what Token::position returns for the two variants that carry none
NoPosition == Position(0, 0)

Token(k, p, s) == [kind |-> k, pos |-> p, text |-> s]

EofToken == Token("Eof", NoPosition, <<>>)

WhitespaceToken == Token("Whitespace", NoPosition, <<>>)

TokenPosition(t) ==
    IF t.kind \in {"Eof", "Whitespace"} THEN NoPosition ELSE t.pos

\* Display for Token with the escaping backslash dropped
TokenDisplayNoBackslash(t) ==
    CASE t.kind = "Eof" -> <<>>
      [] t.kind = "Whitespace" -> <<" ">>
      [] t.kind = "Newline" -> <<"\n">>
      [] t.kind = "OpenParen" -> <<"(">>
      [] t.kind = "CloseParen" -> <<")">>
      [] t.kind = "OpenSquare" -> <<"[">>
      [] t.kind = "CloseSquare" -> <<"]">>
      [] t.kind = "Semicolon" -> <<";">>
      [] OTHER -> t.text

\* impl Display for Token.  An Integer token keeps its value as the decimal
\* digits Rust prints for a u64 (no leading zero), so its text is printed as is.
TokenDisplay(t) ==
    CASE t.kind = "Eof" -> <<>>
      [] t.kind = "Whitespace" -> <<" ">>
      [] t.kind = "Newline" -> <<"\n">>
      [] t.kind = "OpenParen" -> <<"(">>
      [] t.kind = "CloseParen" -> <<")">>
      [] t.kind = "OpenSquare" -> <<"[">>
      [] t.kind = "CloseSquare" -> <<"]">>
      [] t.kind = "Semicolon" -> <<";">>
      [] t.kind = "Escaped" -> <<"\\">> \o t.text
      [] OTHER -> t.text

----------------------------------------------------------------------------
(* Scanner.  A scanner state is [input, cur, pos]; cur counts the characters *)
(* read, so the lookahead is input[cur + 1].                                *)

NewScanner(data) == [input |-> data, cur |-> 0, pos |-> Position(1, 0)]

\* A usize is written as an integer: k >= 0 is the value k, and k < 0 is the
\* value usize::MAX + 1 + k, so that sums and differences of values near 0 or
\* near usize::MAX are the sums and differences of the integers, wrapped.
\* ULess is the comparison a < b of two usize.
ULess(a, b) == IF (a < 0) = (b < 0) THEN a < b ELSE b < 0

\* the builds of the program: with the overflow checks of cargo's dev
\* profile, and without them as in its release profile
Builds == {"debug", "release"}

\* Scanner::peek.  len - n is computed in usize.  For n > len the debug build
\* panics at the subtraction.  The release build wraps it: for n up to about
\* usize::MAX - len the limit is huge, the test passes and the index cur + n
\* is out of range, a panic; for n nearer usize::MAX the limit is small
\* again, and when the test passes cur + n wraps as well, to an index before
\* the cursor (the element there is returned) or to a huge one (a panic).
ScannerPeek(build, sc, n) ==
    IF build = "debug" /\ ULess(Len(sc.input), n) THEN "PANIC"
    ELSE IF ULess(sc.cur, Len(sc.input) - n)
    THEN IF sc.cur + n \in 0..(Len(sc.input) - 1)
         THEN sc.input[sc.cur + n + 1]
         ELSE "PANIC"
    ELSE NUL

\* self.peek(0), the only call of peek in the repository: len - 0 and cur + 0
\* are the same in every build
ScannerPeek0(sc) == ScannerPeek("release", sc, 0)

\* Scanner::read: the scanner after the call; ScannerReadChar is what it returns.
ScannerRead(sc) ==
    IF sc.cur >= Len(sc.input) THEN [sc EXCEPT !.cur = sc.cur + 1]
    ELSE IF sc.input[sc.cur + 1] = "\n"
         THEN [sc EXCEPT !.cur = sc.cur + 1,
                         !.pos = Position(sc.pos.row + 1, 0)]
         ELSE [sc EXCEPT !.cur = sc.cur + 1,
                         !.pos = Position(sc.pos.row, sc.pos.col + 1)]

ScannerReadChar(sc) ==
    IF sc.cur >= Len(sc.input) THEN NUL ELSE sc.input[sc.cur + 1]

\* a scan_* result: the scanner after it and the token, or the error message
ScanOk(sc, t) == [ok |-> TRUE, sc |-> sc, tok |-> t, msg |-> ""]

ScanErr(sc, m) == [ok |-> FALSE, sc |-> sc, tok |-> EofToken, msg |-> m]

create_token(sc, t) == ScanOk(ScannerRead(sc), t)

\* the loops of scan_whitespace, scan_newlines, scan_number, scan_identifier:
\* read while the lookahead is in the class
RECURSIVE ReadWhile(_, _)
ReadWhile(sc, class) ==
    IF ScannerPeek0(sc) \in class THEN ReadWhile(ScannerRead(sc), class) ELSE sc

\* the characters between two cursors
Taken(sc0, sc1) == SubSeq(sc0.input, sc0.cur + 1, sc1.cur)

scan_whitespace(sc) == ScanOk(ReadWhile(sc, {" ", "\t", "\r"}), WhitespaceToken)

scan_newlines(sc) ==
    LET sc1 == ReadWhile(sc, {"\n"})
    IN ScanOk(sc1, Token("Newline", sc1.pos, <<>>))

\* scan_escaped that reads the backslash and leaves the next character
scan_escaped_peek(sc) ==
    LET sc1 == ScannerRead(sc)
    IN ScanOk(sc1, Token("Escaped", sc1.pos, <<ScannerPeek0(sc1)>>))

scan_escaped(sc) ==
    LET sc1 == ScannerRead(sc)
        sc2 == ScannerRead(sc1)
    IN ScanOk(sc2, Token("Escaped", sc2.pos, <<ScannerReadChar(sc1)>>))

scan_ascii(sc) ==
    LET sc1 == ScannerRead(sc)
    IN ScanOk(sc1, Token("Ascii", sc1.pos, <<ScannerReadChar(sc)>>))

scan_bytes(sc) ==
    LET sc1 == ScannerRead(sc)
    IN ScanOk(sc1, Token("Bytes", sc1.pos, <<ScannerReadChar(sc)>>))

\* u64::MAX, 18446744073709551615, digit by digit
U64MaxDigits ==
    <<"1", "8", "4", "4", "6", "7", "4", "4", "0", "7",
      "3", "7", "0", "9", "5", "5", "1", "6", "1", "5">>

DigitValue(c) ==
    CASE c = "0" -> 0 [] c = "1" -> 1 [] c = "2" -> 2 [] c = "3" -> 3
      [] c = "4" -> 4 [] c = "5" -> 5 [] c = "6" -> 6 [] c = "7" -> 7
      [] c = "8" -> 8 [] c = "9" -> 9

\* the decimal digits of the number a digit run denotes: no leading zero
RECURSIVE StripZeros(_)
StripZeros(ds) ==
    IF Len(ds) > 1 /\ ds[1] = "0" THEN StripZeros(Tail(ds)) ELSE ds

\* digit strings of the same length, compared as numbers
RECURSIVE DigitsLeq(_, _)
DigitsLeq(a, b) ==
    IF a = <<>> THEN TRUE
    ELSE IF DigitValue(a[1]) < DigitValue(b[1]) THEN TRUE
    ELSE IF DigitValue(a[1]) > DigitValue(b[1]) THEN FALSE
    ELSE DigitsLeq(Tail(a), Tail(b))

\* str::parse::<u64> taking every number of as many digits as u64::MAX has
FitsU64Lax(ds) == Len(StripZeros(ds)) <= Len(U64MaxDigits)

\* whether str::parse::<u64> accepts the digit run: not the empty one, and
\* no number above u64::MAX
FitsU64(ds) ==
    LET n == StripZeros(ds)
    IN /\ ds # <<>>
       /\ \/ Len(n) < Len(U64MaxDigits)
          \/ (Len(n) = Len(U64MaxDigits) /\ DigitsLeq(n, U64MaxDigits))

\* the text of the ParseIntError of a digit run that str::parse::<u64> does
\* not accept
ParseIntError(ds) ==
    IF ds = <<>> THEN "cannot parse integer from empty string"
    ELSE "number too large to fit in target type"

scan_number(sc) ==
    LET sc1 == ReadWhile(sc, Digits)
        s == Taken(sc, sc1)
    IN IF FitsU64(s)
       THEN ScanOk(sc1, Token("Integer", sc1.pos, StripZeros(s)))
       ELSE ScanErr(sc1, ParseIntError(s))

\* scan_identifier that looks at the first character only
scan_identifier_first(sc) ==
    LET sc1 == ReadWhile(sc, Digits \cup LowerLetters \cup UpperLetters \cup {"_"})
        s == Taken(sc, sc1)
    IN IF s[1] \in UpperLetters
       THEN ScanOk(sc1, Token("UcLetter", sc1.pos, s))
       ELSE ScanOk(sc1, Token("Identifier", sc1.pos, s))

scan_identifier(sc) ==
    LET sc1 == ReadWhile(sc, Digits \cup LowerLetters \cup UpperLetters \cup {"_"})
        s == Taken(sc, sc1)
        upper == \A i \in 1..Len(s) : s[i] \in UpperLetters
    IN IF upper
       THEN ScanOk(sc1, Token("UcLetter", sc1.pos, s))
       ELSE ScanOk(sc1, Token("Identifier", sc1.pos, s))

scan_token(sc) ==
    LET c == ScannerPeek0(sc)
    IN CASE c = NUL -> ScanOk(sc, EofToken)
         [] c \in {" ", "\t", "\r"} -> scan_whitespace(sc)
         [] c = "\n" -> scan_newlines(sc)
         [] c = "\\" -> scan_escaped(sc)
         [] c = "(" -> create_token(sc, Token("OpenParen", sc.pos, <<>>))
         [] c = ")" -> create_token(sc, Token("CloseParen", sc.pos, <<>>))
         [] c = "[" -> create_token(sc, Token("OpenSquare", sc.pos, <<>>))
         [] c = "]" -> create_token(sc, Token("CloseSquare", sc.pos, <<>>))
         [] is_digit(c) -> scan_number(sc)
         [] is_identifier_start(c) -> scan_identifier(sc)
         [] c = ";" -> create_token(sc, Token("Semicolon", sc.pos, <<>>))
         [] c \in OtherAscii -> scan_ascii(sc)
         [] OTHER -> scan_bytes(sc)

\* Scanner::create_error: the message with the scanner's position
ScannerError(sc, m) == [kind |-> "ScanError", pos |-> sc.pos, msg |-> m]

\* Scanner::scan: the token list, or the error and no list
RECURSIVE ScanLoop(_, _)
ScanLoop(sc, toks) ==
    LET r == scan_token(sc)
    IN IF ~r.ok THEN [ok |-> FALSE, tokens |-> <<>>, sc |-> r.sc,
                      err |-> ScannerError(r.sc, r.msg)]
       ELSE IF r.tok.kind = "Eof"
            THEN [ok |-> TRUE, tokens |-> toks, sc |-> r.sc,
                  err |-> ScannerError(r.sc, "")]
       ELSE ScanLoop(r.sc, Append(toks, r.tok))

Scan(data) == ScanLoop(NewScanner(data), <<>>)

----------------------------------------------------------------------------
(* The tree (vertex.rs) *)

Property(ident, values) == [ident |-> ident, values |-> values]

Node(props) == [props |-> props]

Sequence(nodes) == [nodes |-> nodes]

GameTree(seq, trees) == [sequence |-> seq, gametrees |-> trees]

Collection(trees) == [gametrees |-> trees]

----------------------------------------------------------------------------
(* Parser.  The parser is its token list toks and its cursor cur, the number *)
(* of tokens read.  A rule returns the cursor it leaves and its value or its *)
(* error.                                                                    *)

\* Parser::peek, with the same usize arithmetic as the scanner's
ParserPeek(build, toks, cur, n) ==
    IF build = "debug" /\ ULess(Len(toks), n) THEN Token("PANIC", NoPosition, <<>>)
    ELSE IF ULess(cur, Len(toks) - n)
    THEN IF cur + n \in 0..(Len(toks) - 1)
         THEN toks[cur + n + 1]
         ELSE Token("PANIC", NoPosition, <<>>)
    ELSE EofToken

\* self.peek(0), the only call of peek in the repository
ParserPeek0(toks, cur) == ParserPeek("release", toks, cur, 0)

\* Parser::read: the token it returns; the cursor becomes cur + 1 in any case
ParserRead(toks, cur) == IF cur >= Len(toks) THEN EofToken ELSE toks[cur + 1]

\* a message: msg alone, or "unexpected <tok> <msg>"
Message(m) == [unexpected |-> FALSE, tok |-> EofToken, msg |-> m]

UnexpectedMessage(t, m) == [unexpected |-> TRUE, tok |-> t, msg |-> m]

\* the message of ParseIntError for a number above u64::MAX
TooLarge == Message("number too large to fit in target type")

NoError == [located |-> FALSE, pos |-> NoPosition, message |-> Message("")]

\* Parser::create_error
create_error(toks, cur, m) ==
    IF Len(toks) = 0
    THEN [located |-> FALSE, pos |-> NoPosition, message |-> Message("empty file")]
    ELSE IF cur >= Len(toks)
    THEN [located |-> TRUE, pos |-> TokenPosition(toks[Len(toks)]), message |-> m]
    ELSE [located |-> TRUE, pos |-> TokenPosition(toks[cur + 1]), message |-> m]

\* Parser::unexpected: reads the token, then makes the error at the new cursor
unexpected(toks, cur, m) ==
    create_error(toks, cur + 1, UnexpectedMessage(ParserRead(toks, cur), m))

Ok(cur, v) == [ok |-> TRUE, cur |-> cur, val |-> v, err |-> NoError]

Fail(cur, e) == [ok |-> FALSE, cur |-> cur, val |-> <<>>, err |-> e]

RECURSIVE consume_whitespace(_, _)
consume_whitespace(toks, cur) ==
    IF ParserPeek0(toks, cur).kind \in {"Whitespace", "Newline"}
    THEN consume_whitespace(toks, cur + 1)
    ELSE cur

\* the ? operator: an error is returned at once, a value is passed on
Try(r, Then(_)) == IF ~r.ok THEN r ELSE Then(r)

\* the loop of parse_propvalue leaving at the end of the tokens as at a ']'
RECURSIVE PropValueLoopEndBreaks(_, _, _)
PropValueLoopEndBreaks(toks, cur, s) ==
    LET t == ParserPeek0(toks, cur)
    IN IF t.kind \in {"CloseSquare", "Eof"} THEN Ok(cur, s)
       ELSE PropValueLoopEndBreaks(toks, cur + 1, s \o TokenDisplay(t))

\* parse_propvalue's loop: the text of the tokens up to the first ']'
RECURSIVE PropValueLoop(_, _, _)
PropValueLoop(toks, cur, s) ==
    LET t == ParserPeek0(toks, cur)
    IN IF t.kind = "CloseSquare" THEN Ok(cur, s)
       ELSE IF t.kind = "Eof"
            THEN Fail(cur + 1, unexpected(toks, cur, "eof while waiting for ']'"))
       ELSE PropValueLoop(toks, cur + 1, s \o TokenDisplay(t))

parse_propvalue(toks, cur) ==
    IF ParserPeek0(toks, cur).kind # "OpenSquare"
    THEN Fail(cur + 1, unexpected(toks, cur, "needed '[' in parse_propvalue"))
    ELSE Try(PropValueLoop(toks, cur + 1, <<>>),
             LAMBDA r :
                IF ParserPeek0(toks, r.cur).kind = "CloseSquare"
                THEN Ok(r.cur + 1, r.val)
                ELSE Fail(r.cur + 1,
                          unexpected(toks, r.cur, "needed ']' in parse_propvalue")))

parse_propident(toks, cur) ==
    LET t == ParserRead(toks, cur)
    IN IF t.kind = "UcLetter" THEN Ok(cur + 1, t.text)
       ELSE Fail(cur + 1,
                 create_error(toks, cur + 1, Message("expected uppercase identifier")))

\* parse_property's loop over the bracketed values
RECURSIVE PropertyLoop(_, _, _)
PropertyLoop(toks, cur, values) ==
    IF ParserPeek0(toks, cur).kind = "OpenSquare"
    THEN Try(parse_propvalue(toks, cur),
             LAMBDA r : PropertyLoop(toks, consume_whitespace(toks, r.cur),
                                     Append(values, r.val)))
    ELSE Ok(cur, values)

\* parse_property without the check of the value list
parse_property_unchecked(toks, cur) ==
    Try(parse_propident(toks, cur),
        LAMBDA id :
           Try(PropertyLoop(toks, consume_whitespace(toks, id.cur), <<>>),
               LAMBDA r : Ok(r.cur, Property(id.val, r.val))))

parse_property(toks, cur) ==
    Try(parse_propident(toks, cur),
        LAMBDA id :
           Try(PropertyLoop(toks, consume_whitespace(toks, id.cur), <<>>),
               LAMBDA r :
                  IF Len(r.val) = 0
                  THEN Fail(r.cur, create_error(toks, r.cur,
                                       Message("cannot have empty property list")))
                  ELSE Ok(r.cur, Property(id.val, r.val))))

\* parse_node's loop over the properties
RECURSIVE NodeLoop(_, _, _)
NodeLoop(toks, cur, props) ==
    IF ParserPeek0(toks, cur).kind = "UcLetter"
    THEN Try(parse_property(toks, cur),
             LAMBDA r : NodeLoop(toks, consume_whitespace(toks, r.cur),
                                 Append(props, r.val)))
    ELSE Ok(cur, props)

parse_node(toks, cur) ==
    Try(NodeLoop(toks, consume_whitespace(toks, cur + 1), <<>>),
        LAMBDA r : Ok(r.cur, Node(r.val)))

\* parse_sequence's loop over the nodes
RECURSIVE SequenceLoop(_, _, _)
SequenceLoop(toks, cur, nodes) ==
    IF ParserPeek0(toks, cur).kind = "Semicolon"
    THEN Try(parse_node(toks, cur),
             LAMBDA r : SequenceLoop(toks, consume_whitespace(toks, r.cur),
                                     Append(nodes, r.val)))
    ELSE Ok(cur, nodes)

parse_sequence(toks, cur) ==
    Try(SequenceLoop(toks, cur, <<>>),
        LAMBDA r :
           IF Len(r.val) = 0
           THEN Fail(r.cur, create_error(toks, r.cur,
                                Message("cannot have empty node list")))
           ELSE Ok(r.cur, Sequence(r.val)))

RECURSIVE parse_gametree(_, _)
RECURSIVE GameTreeLoop(_, _, _)

\* the loop of parse_gametree putting each child before the earlier ones
GameTreeLoopPrepend(toks, cur, trees) ==
    LET t == ParserPeek0(toks, cur)
    IN IF t.kind = "OpenParen"
       THEN Try(parse_gametree(toks, cur),
                LAMBDA r : GameTreeLoop(toks, consume_whitespace(toks, r.cur),
                                        <<r.val>> \o trees))
       ELSE IF t.kind = "CloseParen" THEN Ok(cur + 1, trees)
       ELSE Fail(cur + 1, unexpected(toks, cur, "in parse_gametree"))

\* parse_gametree's loop over the child game trees, up to the ')'
GameTreeLoop(toks, cur, trees) ==
    LET t == ParserPeek0(toks, cur)
    IN IF t.kind = "OpenParen"
       THEN Try(parse_gametree(toks, cur),
                LAMBDA r : GameTreeLoop(toks, consume_whitespace(toks, r.cur),
                                        Append(trees, r.val)))
       ELSE IF t.kind = "CloseParen" THEN Ok(cur + 1, trees)
       ELSE Fail(cur + 1, unexpected(toks, cur, "in parse_gametree"))

parse_gametree(toks, cur) ==
    Try(parse_sequence(toks, consume_whitespace(toks, cur + 1)),
        LAMBDA seq :
           Try(GameTreeLoop(toks, consume_whitespace(toks, seq.cur), <<>>),
               LAMBDA r : Ok(r.cur, GameTree(seq.val, r.val))))

\* parse's first loop as a single test: one token skipped at most
SkipGarbageOnce(toks, cur) ==
    IF ParserPeek0(toks, cur).kind \in {"OpenParen", "Eof"} THEN cur ELSE cur + 1

\* parse's first loop: skip what stands before the first '('
RECURSIVE SkipGarbage(_, _)
SkipGarbage(toks, cur) ==
    IF ParserPeek0(toks, cur).kind \in {"OpenParen", "Eof"} THEN cur
    ELSE SkipGarbage(toks, cur + 1)

RECURSIVE CollectionLoop(_, _, _)

\* parse's second loop taking nothing but the end of the tokens after the
\* game trees
CollectionLoopToEnd(toks, cur, trees) ==
    IF ParserPeek0(toks, cur).kind = "OpenParen"
    THEN Try(parse_gametree(toks, cur),
             LAMBDA r : CollectionLoop(toks, r.cur, Append(trees, r.val)))
    ELSE IF ParserPeek0(toks, cur).kind = "Eof" THEN Ok(cur, trees)
    ELSE Fail(cur + 1, unexpected(toks, cur, "in parse"))

\* parse's second loop: one game tree per '(' at the lookahead
CollectionLoop(toks, cur, trees) ==
    IF ParserPeek0(toks, cur).kind = "OpenParen"
    THEN Try(parse_gametree(toks, cur),
             LAMBDA r : CollectionLoop(toks, r.cur, Append(trees, r.val)))
    ELSE Ok(cur, trees)

\* parse without the check of the game tree list
parse_unchecked(toks, cur) ==
    Try(CollectionLoop(toks, SkipGarbage(toks, consume_whitespace(toks, cur)), <<>>),
        LAMBDA r : Ok(r.cur, Collection(r.val)))

\* Parser::parse, on a parser whose cursor is cur
parse(toks, cur) ==
    Try(CollectionLoop(toks, SkipGarbage(toks, consume_whitespace(toks, cur)), <<>>),
        LAMBDA r :
           IF Len(r.val) = 0
           THEN Fail(r.cur, create_error(toks, r.cur,
                                Message("cannot have empty collection")))
           ELSE Ok(r.cur, Collection(r.val)))

-----
(* Transforms of the tree (vertex.rs) *)

\* strip_key that leaves a stripped property with no value at all
PropertyStripKeyNoValue(p, k) ==
    IF p.ident # k THEN Property(p.ident, p.values) ELSE Property(p.ident, <<>>)

PropertyStripKey(p, k) ==
    IF p.ident # k THEN Property(p.ident, p.values) ELSE Property(p.ident, <<<<>>>>)

NodeStripKey(n, k) ==
    Node([i \in 1..Len(n.props) |-> PropertyStripKey(n.props[i], k)])

SequenceStripKey(s, k) ==
    Sequence([i \in 1..Len(s.nodes) |-> NodeStripKey(s.nodes[i], k)])

RECURSIVE GameTreeStripKey(_, _)
GameTreeStripKey(gt, k) ==
    GameTree(SequenceStripKey(gt.sequence, k),
             [i \in 1..Len(gt.gametrees) |-> GameTreeStripKey(gt.gametrees[i], k)])

\* impl Display for Property: the loop pushes "[value]" after the identifier
RECURSIVE PropertyDisplayLoop(_, _)
PropertyDisplayLoop(values, s) ==
    IF values = <<>> THEN s
    ELSE PropertyDisplayLoop(Tail(values), s \o <<"[">> \o Head(values) \o <<"]">>)

PropertyDisplay(p) == PropertyDisplayLoop(p.values, p.ident)

RECURSIVE NodeDisplayLoop(_, _)
NodeDisplayLoop(props, s) ==
    IF props = <<>> THEN s
    ELSE NodeDisplayLoop(Tail(props), s \o PropertyDisplay(Head(props)))

\* Display for Node that starts each node on a line of its own
NodeDisplayOnNewLine(n) == <<"\n", ";">> \o NodeDisplayLoop(n.props, <<>>)

NodeDisplay(n) == <<";">> \o NodeDisplayLoop(n.props, <<>>)

RECURSIVE SequenceDisplayLoop(_, _)
SequenceDisplayLoop(nodes, s) ==
    IF nodes = <<>> THEN s
    ELSE SequenceDisplayLoop(Tail(nodes), s \o NodeDisplay(Head(nodes)))

SequenceDisplay(sq) == SequenceDisplayLoop(sq.nodes, <<>>)

RECURSIVE GameTreeDisplay(_)
RECURSIVE GameTreesDisplayLoop(_, _)

GameTreesDisplayLoop(trees, s) ==
    IF trees = <<>> THEN s
    ELSE GameTreesDisplayLoop(Tail(trees), s \o GameTreeDisplay(Head(trees)))

GameTreeDisplay(gt) ==
    GameTreesDisplayLoop(gt.gametrees, <<"(">> \o SequenceDisplay(gt.sequence))
        \o <<")">>

CollectionDisplay(c) == GameTreesDisplayLoop(c.gametrees, <<>>)

----------------------------------------------------------------------------
(* The inputs: a frame's prefix, a body of at most MaxBody characters of the *)
(* frame's alphabet, the frame's suffix.                                     *)

MaxBody == 3

\* u64::MAX + 1, 18446744073709551616, digit by digit
U64MaxSucc ==
    <<"1", "8", "4", "4", "6", "7", "4", "4", "0", "7",
      "3", "7", "0", "9", "5", "5", "1", "6", "1", "6">>

\* twenty nines, a number above u64::MAX
Nines20 == [i \in 1..20 |-> "9"]

Frame(pre, alpha, suf) == [pre |-> pre, alpha |-> alpha, suf |-> suf]

Strings(alpha, n) == UNION {[1..k -> alpha] : k \in 0..n}

Frames ==
    { \* the whole text
      Frame(<<>>, {"(", ")", ";", "A", "[", "]", " ", "\n", "g"}, <<>>),
      \* a value body
      Frame(<<"(", ";", "Z", "Z", "[">>,
            {"\\", "]", "[", " ", "\t", "\n", "0", "7", "a", "(", NonAscii, NUL},
            <<"]", ")">>),
      \* an unterminated value
      Frame(<<"(", ";", "A", "[">>, {"\\", "]", "b", " ", ")"}, <<>>),
      \* a property identifier
      Frame(<<"(", ";">>, {"G", "g", "1", "_", " "}, <<"[", "1", "]", ")">>),
      \* what follows a property
      Frame(<<"(", ";", "A", "[", "b", "]">>,
            {"(", ")", ";", "C", "[", "]", " ", "x"}, <<")">>),
      \* what follows a child game tree
      Frame(<<"(", ";", "A", "[", "b", "]", "(", ";", "C", "[", "d", "]", ")">>,
            {"(", ")", ";", " ", "\n"}, <<")">>),
      \* what follows a root game tree
      Frame(<<"(", ";", "A", "[", "b", "]", ")">>,
            {"(", ")", ";", " ", "A", "["}, <<>>),
      \* what stands before the first game tree
      Frame(<<>>, {"x", ")", ";", "[", " ", "\n", "1"},
            <<"(", ";", "A", "[", "b", "]", ")">>),
      \* a property and its values
      Frame(<<"(", ";", "C">>, {"[", "]", " "}, <<")">>),
      \* tests::parse1, tests::parse12
      Frame(<<"(", ";", "G", "M", "[", "1", "]", ")">>, {}, <<>>),
      Frame(<<"(", ";", "g", "m", "[", "1", "]", ")">>, {}, <<>>),
      \* tests::parse4
      Frame(<<"(", ";", "Z", "Z", "[", "a", "o", "e", "u", " ", "[", "1", "k",
              "\\", "]", "]", ")">>, {}, <<>>),
      \* tests::parse5
      Frame(<<"(", ";", "G", "M", "[", "1", "]",
              "(", ";", "B", "[", "a", "a", "]", ";", "W", "[", "a", "b", "]", ")",
              "(", ";", "B", "[", "a", "b", "]", ";", "W", "[", "a", "c", "]", ")",
              ")">>, {}, <<>>),
      \* player names, as in main.rs
      Frame(<<"(", ";", "P", "B", "[", "B", "l", "a", "c", "k", "]",
              "P", "W", "[", "W", "h", "i", "t", "e", "]", "[", "x", "]",
              "(", ";", "P", "B", "[", "]", ";", "C", "[", "P", "B", "]", ")",
              ")">>, {}, <<>>),
      \* a number above u64::MAX
      Frame(<<"(", ";", "A", "[", "9", "9", "9", "9", "9", "9", "9", "9", "9", "9",
              "9", "9", "9", "9", "9", "9", "9", "9", "9", "9", "]", ")">>,
            {}, <<>>),
      \* u64::MAX and u64::MAX + 1 as values
      Frame(<<"(", ";", "A", "[">> \o U64MaxDigits \o <<"]", ")">>, {}, <<>>),
      Frame(<<"(", ";", "A", "[">> \o U64MaxSucc \o <<"]", ")">>, {}, <<>>),
      \* what stands before twenty digits in a value
      Frame(<<"(", ";", "A", "[">>, {"a", "\\", "0", "1", " "},
            Nines20 \o <<"]", ")">>),
      \* twenty digits before the first game tree
      Frame(<<>>, {" ", "x", NUL},
            Nines20 \o <<"(", ";", "A", "[", "b", "]", ")">>),
      \* what stands between two root game trees
      Frame(<<"(", ";", "A", "[", "b", "]", ")">>, {" ", "\t", "\n"},
            <<"(", ";", "C", "[", "d", "]", ")">>) }

Inputs ==
    UNION { {f.pre \o b \o f.suf : b \in Strings(f.alpha, MaxBody)} : f \in Frames }

\* the keys strip_key is called with
Keys == {<<"A">>, <<"C">>, <<"G">>, <<"P", "B">>, <<"Z", "Z">>, <<"a">>, <<>>}

----------------------------------------------------------------------------
(* The state machine: Parser::new on a text, parse, then either the tree's  *)
(* Display and a second reading of the rendered text, or strip_key.         *)

NoResult == [ok |-> FALSE, cur |-> 0, val |-> <<>>, err |-> NoError]

\* char_vec empty and upper true, as scan_identifier starts
NoLocals == [char_vec |-> <<>>, upper |-> TRUE]

\* no call has returned yet
NoReturn == [call |-> "none", n |-> 0, at |-> 0, value |-> NUL]

\* nothing is followed call by call
StepIdle ==
    /\ scanner = NewScanner(<<>>)
    /\ scanned = <<>>
    /\ locals = NoLocals
    /\ pcur = 0
    /\ stack = <<>>
    /\ ret = NoReturn

Init ==
    /\ StepIdle
    /\ source \in Inputs
    /\ input = source
    /\ pc = "new"
    /\ round = 1
    /\ tokens = <<>>
    /\ result = NoResult
    /\ text = <<>>
    /\ first = Collection(<<>>)
    /\ key = <<>>
    /\ stripped = <<>>

\* impl From<scanner::Error> for parser::Error
FromScannerError(e) == [located |-> TRUE, pos |-> e.pos, message |-> Message(e.msg)]

\* Parser::new: the scan; a scan error leaves no parser
ParserNew ==
    /\ pc = "new"
    /\ LET s == Scan(input)
       IN IF s.ok
          THEN /\ tokens' = s.tokens
               /\ pc' = "ready"
               /\ UNCHANGED result
          ELSE /\ tokens' = <<>>
               /\ pc' = "no_parser"
               /\ result' = Fail(0, FromScannerError(s.err))
    /\ UNCHANGED <<source, input, round, text, first, key, stripped>>
    /\ UNCHANGED stepVars

\* Parser::parse
Parse ==
    /\ pc = "ready"
    /\ result' = parse(tokens, 0)
    /\ pc' = "parsed"
    /\ UNCHANGED <<source, input, round, tokens, text, first, key, stripped>>
    /\ UNCHANGED stepVars

\* format!("{}", collection)
Display ==
    /\ pc = "parsed"
    /\ result.ok
    /\ round = 1
    /\ text' = CollectionDisplay(result.val)
    /\ pc' = "displayed"
    /\ UNCHANGED <<source, input, round, tokens, result, first, key, stripped>>
    /\ UNCHANGED stepVars

\* the rendered text is read again
Reread ==
    /\ pc = "displayed"
    /\ input' = text
    /\ first' = result.val
    /\ round' = 2
    /\ pc' = "new"
    /\ tokens' = <<>>
    /\ result' = NoResult
    /\ UNCHANGED <<source, text, key, stripped>>
    /\ UNCHANGED stepVars

\* gt.strip_key(k) on each game tree of the collection, as in main.rs
StripKey ==
    /\ pc = "parsed"
    /\ result.ok
    /\ round = 1
    /\ \E k \in Keys :
          /\ key' = k
          /\ stripped' = [i \in 1..Len(result.val.gametrees) |->
                             GameTreeStripKey(result.val.gametrees[i], k)]
    /\ pc' = "stripped"
    /\ UNCHANGED <<source, input, round, tokens, result, text, first>>
    /\ UNCHANGED stepVars

Next == ParserNew \/ Parse \/ Display \/ Reread \/ StripKey

Spec == Init /\ [][Next]_vars

----------------------------------------------------------------------------
(* The two cursors on their own: peek and read of a Scanner and of a Parser *)
(* made from the same text, called in any order.                            *)

\* the longest text
MaxLook == 2

\* the n given to peek are at most this far from 0 or from usize::MAX
MaxAhead == 3

\* the n given to peek: 0 .. MaxAhead, and usize::MAX + 1 - MaxAhead ..
\* usize::MAX, written -MaxAhead .. -1
LookArgs == (0 - MaxAhead)..MaxAhead

\* the number of reads past the end
MaxPast == 2

LookInputs == Strings({"(", ";", "a"}, MaxLook)

\* a call's return: its name, its argument, the cursor it found, its value
Return(call, n, at, value) == [call |-> call, n |-> n, at |-> at, value |-> value]

LookInit ==
    /\ source \in LookInputs
    /\ input = source
    /\ pc = "lookahead"
    /\ round = 1
    /\ tokens = Scan(source).tokens
    /\ result = NoResult
    /\ text = <<>>
    /\ first = Collection(<<>>)
    /\ key = <<>>
    /\ stripped = <<>>
    /\ scanner = NewScanner(source)
    /\ scanned = <<>>
    /\ locals = NoLocals
    /\ pcur = 0
    /\ stack = <<>>
    /\ ret = NoReturn

\* scanner.peek(n) in either build; the call panics when ScannerPeek says so
ScannerPeekCall ==
    /\ pc = "lookahead"
    /\ \E build \in Builds, n \in LookArgs :
          /\ ret' = Return("Scanner::peek", n, scanner.cur,
                           ScannerPeek(build, scanner, n))
          /\ pc' = IF ScannerPeek(build, scanner, n) = "PANIC" THEN "panicked" ELSE pc
    /\ UNCHANGED <<source, input, round, tokens, result, text, first, key, stripped>>
    /\ UNCHANGED <<scanner, scanned, locals, pcur, stack>>

\* scanner.read()
ScannerReadCall ==
    /\ pc = "lookahead"
    /\ scanner.cur < Len(scanner.input) + MaxPast
    /\ ret' = Return("Scanner::read", 0, scanner.cur, ScannerReadChar(scanner))
    /\ scanner' = ScannerRead(scanner)
    /\ UNCHANGED wholeVars
    /\ UNCHANGED <<scanned, locals, pcur, stack>>

\* parser.peek(n) in either build
ParserPeekCall ==
    /\ pc = "lookahead"
    /\ \E build \in Builds, n \in LookArgs :
          /\ ret' = Return("Parser::peek", n, pcur,
                           ParserPeek(build, tokens, pcur, n))
          /\ pc' = IF ParserPeek(build, tokens, pcur, n).kind = "PANIC"
                   THEN "panicked" ELSE pc
    /\ UNCHANGED <<source, input, round, tokens, result, text, first, key, stripped>>
    /\ UNCHANGED <<scanner, scanned, locals, pcur, stack>>

\* parser.read()
ParserReadCall ==
    /\ pc = "lookahead"
    /\ pcur < Len(tokens) + MaxPast
    /\ ret' = Return("Parser::read", 0, pcur, ParserRead(tokens, pcur))
    /\ pcur' = pcur + 1
    /\ UNCHANGED wholeVars
    /\ UNCHANGED <<scanner, scanned, locals, stack>>

LookNext == ScannerPeekCall \/ ScannerReadCall \/ ParserPeekCall \/ ParserReadCall

LookaheadSpec == LookInit /\ [][LookNext]_vars

----------------------------------------------------------------------------
(* The run followed call by call: one step for each iteration of a loop of  *)
(* the scanner, then of the parser, whose calls in progress are the stack.  *)

\* the longest body of an input of the run followed call by call
MaxStep == 3

StepFrames ==
    { \* the whole text
      Frame(<<>>, {"(", ")", ";", "A", "[", "]", " "}, <<>>),
      \* game trees inside game trees
      Frame(<<"(", ";", "(", ";">>, {"(", ";", ")", "\n"}, <<")", ")">>),
      \* a value body
      Frame(<<"(", ";", "A", "[">>, {"\\", "]", "\n", " ", NUL, "7"}, <<"]", ")">>),
      \* the end of the text
      Frame(<<"(", ";", "A", "[", "b">>, {"\\", "]", ")"}, <<>>),
      \* a property identifier
      Frame(<<"(", ";">>, {"G", "g", "1", "\t", NonAscii, "+"}, <<"[", "0", "1", "]", ")">>),
      \* a number above u64::MAX
      Frame(<<"(", ";", "A", "[">> \o Nines20 \o <<"]", ")">>, {}, <<>>) }

StepInputs ==
    UNION { {f.pre \o b \o f.suf : b \in Strings(f.alpha, MaxStep)} : f \in StepFrames }

\* what no step of the run changes
fixedVars == <<source, input, round, text, first, key, stripped>>

\* a call of a rule of the parser: where it is, the list it is building (the
\* string, for parse_propvalue), and seq and ident of parse_gametree and
\* parse_property
Call(rule, stage) ==
    [rule |-> rule, stage |-> stage, list |-> <<>>, seq |-> <<>>, ident |-> <<>>]

StepInit ==
    /\ source \in StepInputs
    /\ input = source
    /\ pc = "scan"
    /\ round = 1
    /\ tokens = <<>>
    /\ result = NoResult
    /\ text = <<>>
    /\ first = Collection(<<>>)
    /\ key = <<>>
    /\ stripped = <<>>
    /\ scanner = NewScanner(source)
    /\ scanned = <<>>
    /\ locals = NoLocals
    /\ pcur = 0
    /\ stack = <<>>
    /\ ret = NoReturn

\* scan's loop, Token::Eof: the loop ends, Parser::new makes the parser of
\* the tokens, and parse is called
ScanEnd ==
    /\ pc = "scan"
    /\ ScannerPeek0(scanner) = NUL
    /\ tokens' = scanned
    /\ pc' = "parse"
    /\ stack' = <<Call("parse", "start")>>
    /\ UNCHANGED <<fixedVars, result, scanner, scanned, locals, pcur, ret>>

\* scan's loop, a token that scan_token makes without a loop
ScanOne ==
    /\ pc = "scan"
    /\ ScannerPeek0(scanner) \notin {NUL, " ", "\t", "\r", "\n"}
    /\ ~is_identifier(ScannerPeek0(scanner))
    /\ scanner' = scan_token(scanner).sc
    /\ scanned' = Append(scanned, scan_token(scanner).tok)
    /\ UNCHANGED <<fixedVars, pc, tokens, result, locals, pcur, stack, ret>>

\* scan's loop, scan_token calling one of the scan_* that loop
ScanCall ==
    /\ pc = "scan"
    /\ pc' = CASE ScannerPeek0(scanner) \in {" ", "\t", "\r"} -> "scan_whitespace"
               [] ScannerPeek0(scanner) = "\n" -> "scan_newlines"
               [] is_digit(ScannerPeek0(scanner)) -> "scan_number"
               [] is_identifier_start(ScannerPeek0(scanner)) -> "scan_identifier"
               [] OTHER -> pc
    /\ pc' # pc
    /\ locals' = NoLocals
    /\ UNCHANGED <<fixedVars, tokens, result, scanner, scanned, pcur, stack, ret>>

\* one iteration of scan_whitespace's loop
ScanWhitespaceStep ==
    /\ pc = "scan_whitespace"
    /\ IF ScannerPeek0(scanner) \in {" ", "\t", "\r"}
       THEN /\ scanner' = ScannerRead(scanner)
            /\ UNCHANGED <<pc, scanned>>
       ELSE /\ scanned' = Append(scanned, WhitespaceToken)
            /\ pc' = "scan"
            /\ UNCHANGED scanner
    /\ UNCHANGED <<fixedVars, tokens, result, locals, pcur, stack, ret>>

\* one iteration of scan_newlines's loop
ScanNewlinesStep ==
    /\ pc = "scan_newlines"
    /\ IF ScannerPeek0(scanner) = "\n"
       THEN /\ scanner' = ScannerRead(scanner)
            /\ UNCHANGED <<pc, scanned>>
       ELSE /\ scanned' = Append(scanned, Token("Newline", scanner.pos, <<>>))
            /\ pc' = "scan"
            /\ UNCHANGED scanner
    /\ UNCHANGED <<fixedVars, tokens, result, locals, pcur, stack, ret>>

\* one iteration of scan_number's loop; after the loop the digits are parsed,
\* and scan returns the error of a number that does not fit
ScanNumberStep ==
    /\ pc = "scan_number"
    /\ IF is_digit(ScannerPeek0(scanner))
       THEN /\ locals' = [locals EXCEPT
                             !.char_vec = Append(@, ScannerReadChar(scanner))]
            /\ scanner' = ScannerRead(scanner)
            /\ UNCHANGED <<pc, scanned, result>>
       ELSE IF FitsU64(locals.char_vec)
       THEN /\ scanned' = Append(scanned, Token("Integer", scanner.pos,
                                                StripZeros(locals.char_vec)))
            /\ pc' = "scan"
            /\ UNCHANGED <<scanner, locals, result>>
       ELSE /\ pc' = "no_parser"
            /\ result' = Fail(0, FromScannerError(
                                    ScannerError(scanner,
                                                 ParseIntError(locals.char_vec))))
            /\ UNCHANGED <<scanner, locals, scanned>>
    /\ UNCHANGED <<fixedVars, tokens, pcur, stack, ret>>

\* one iteration of scan_identifier's loop
ScanIdentifierStep ==
    /\ pc = "scan_identifier"
    /\ IF is_identifier(ScannerPeek0(scanner))
       THEN /\ locals' = [char_vec |-> Append(locals.char_vec, ScannerPeek0(scanner)),
                          upper |-> locals.upper
                                    /\ ScannerPeek0(scanner) \in UpperLetters]
            /\ scanner' = ScannerRead(scanner)
            /\ UNCHANGED <<pc, scanned>>
       ELSE /\ scanned' = Append(scanned,
                              Token(IF locals.upper THEN "UcLetter" ELSE "Identifier",
                                    scanner.pos, locals.char_vec))
            /\ pc' = "scan"
            /\ UNCHANGED <<scanner, locals>>
    /\ UNCHANGED <<fixedVars, tokens, result, pcur, stack, ret>>

ScanStep ==
    \/ ScanEnd
    \/ ScanOne
    \/ ScanCall
    \/ ScanWhitespaceStep
    \/ ScanNewlinesStep
    \/ ScanNumberStep
    \/ ScanIdentifierStep

\* the innermost call, the stack without it, the stack with it changed
Top(stk) == stk[Len(stk)]

Pop(stk) == SubSeq(stk, 1, Len(stk) - 1)

Replace(stk, call) == [stk EXCEPT ![Len(stk)] = call]

\* consume_whitespace is called
WithWhitespace(stk) == Append(stk, Call("consume_whitespace", "loop"))

\* the step leaves the parser at cur with the calls stk in progress
Moved(cur, stk) ==
    /\ pcur' = cur
    /\ stack' = stk
    /\ UNCHANGED <<pc, result, ret>>

\* the innermost call returns value to its caller
Returned(rule, cur, value) ==
    /\ pcur' = cur
    /\ stack' = Pop(stack)
    /\ ret' = Return(rule, 0, cur, value)
    /\ UNCHANGED <<pc, result>>

\* the innermost call returns an error, which every caller returns in turn
\* (the ? operator), parse at last
Failed(cur, e) ==
    /\ pcur' = cur
    /\ stack' = <<>>
    /\ pc' = "parsed"
    /\ result' = Fail(cur, e)
    /\ UNCHANGED ret

\* the rule is the innermost call
Running(rule) ==
    /\ pc = "parse"
    /\ stack # <<>>
    /\ Top(stack).rule = rule
    /\ UNCHANGED <<fixedVars, tokens, scanner, scanned, locals>>

\* one iteration of consume_whitespace's loop
ConsumeWhitespaceStep ==
    /\ Running("consume_whitespace")
    /\ IF ParserPeek0(tokens, pcur).kind \in {"Whitespace", "Newline"}
       THEN Moved(pcur + 1, stack)
       ELSE Moved(pcur, Pop(stack))

\* parse: the call of consume_whitespace, one iteration of the first loop,
\* one of the second (parse_gametree is called and reads its '('), the
\* return of parse_gametree, the end
ParseStep ==
    /\ Running("parse")
    /\ LET call == Top(stack)
           t == ParserPeek0(tokens, pcur)
       IN CASE call.stage = "start" ->
                  Moved(pcur, WithWhitespace(Replace(stack, [call EXCEPT !.stage = "garbage"])))
            [] call.stage = "garbage" ->
                  IF t.kind \in {"OpenParen", "Eof"}
                  THEN Moved(pcur, Replace(stack, [call EXCEPT !.stage = "trees"]))
                  ELSE Moved(pcur + 1, stack)
            [] call.stage = "trees" ->
                  IF t.kind = "OpenParen"
                  THEN Moved(pcur + 1,
                             WithWhitespace(Append(
                                 Replace(stack, [call EXCEPT !.stage = "tree_ret"]),
                                 Call("parse_gametree", "sequence"))))
                  ELSE IF Len(call.list) = 0
                  THEN Failed(pcur, create_error(tokens, pcur,
                                        Message("cannot have empty collection")))
                  ELSE /\ pc' = "parsed"
                       /\ result' = Ok(pcur, Collection(call.list))
                       /\ stack' = <<>>
                       /\ UNCHANGED <<pcur, ret>>
            [] call.stage = "tree_ret" ->
                  Moved(pcur, Replace(stack, [call EXCEPT !.stage = "trees",
                                                          !.list = Append(@, ret.value)]))

\* parse_gametree, after its '(' and consume_whitespace: the call of
\* parse_sequence, its return, one iteration of the loop (a child is called
\* and reads its '(', or the ')' is read and the game tree returned, or the
\* token is unexpected), the return of a child
GameTreeStep ==
    /\ Running("parse_gametree")
    /\ LET call == Top(stack)
           t == ParserPeek0(tokens, pcur)
       IN CASE call.stage = "sequence" ->
                  Moved(pcur, Append(Replace(stack, [call EXCEPT !.stage = "seq_ret"]),
                                     Call("parse_sequence", "loop")))
            [] call.stage = "seq_ret" ->
                  Moved(pcur, WithWhitespace(
                                 Replace(stack, [call EXCEPT !.stage = "loop",
                                                             !.seq = ret.value])))
            [] call.stage = "loop" ->
                  IF t.kind = "OpenParen"
                  THEN Moved(pcur + 1,
                             WithWhitespace(Append(
                                 Replace(stack, [call EXCEPT !.stage = "child_ret"]),
                                 Call("parse_gametree", "sequence"))))
                  ELSE IF t.kind = "CloseParen"
                  THEN Returned("parse_gametree", pcur + 1, GameTree(call.seq, call.list))
                  ELSE Failed(pcur + 1, unexpected(tokens, pcur, "in parse_gametree"))
            [] call.stage = "child_ret" ->
                  Moved(pcur, WithWhitespace(
                                 Replace(stack, [call EXCEPT !.stage = "loop",
                                                             !.list = Append(@, ret.value)])))

\* parse_sequence: one iteration of the loop (parse_node is called, reads its
\* ';' and calls consume_whitespace), the return of parse_node, the end
SequenceStep ==
    /\ Running("parse_sequence")
    /\ LET call == Top(stack)
           t == ParserPeek0(tokens, pcur)
       IN CASE call.stage = "loop" ->
                  IF t.kind = "Semicolon"
                  THEN Moved(pcur + 1,
                             WithWhitespace(Append(
                                 Replace(stack, [call EXCEPT !.stage = "node_ret"]),
                                 Call("parse_node", "loop"))))
                  ELSE IF Len(call.list) = 0
                  THEN Failed(pcur, create_error(tokens, pcur,
                                        Message("cannot have empty node list")))
                  ELSE Returned("parse_sequence", pcur, Sequence(call.list))
            [] call.stage = "node_ret" ->
                  Moved(pcur, WithWhitespace(
                                 Replace(stack, [call EXCEPT !.stage = "loop",
                                                             !.list = Append(@, ret.value)])))

\* parse_node: one iteration of the loop (parse_property is called, reads its
\* identifier in parse_propident and calls consume_whitespace), the return
\* of parse_property, the end
NodeStep ==
    /\ Running("parse_node")
    /\ LET call == Top(stack)
           t == ParserPeek0(tokens, pcur)
       IN CASE call.stage = "loop" ->
                  IF t.kind = "UcLetter"
                  THEN Moved(pcur + 1,
                             WithWhitespace(Append(
                                 Replace(stack, [call EXCEPT !.stage = "prop_ret"]),
                                 [Call("parse_property", "loop") EXCEPT
                                     !.ident = ParserRead(tokens, pcur).text])))
                  ELSE Returned("parse_node", pcur, Node(call.list))
            [] call.stage = "prop_ret" ->
                  Moved(pcur, WithWhitespace(
                                 Replace(stack, [call EXCEPT !.stage = "loop",
                                                             !.list = Append(@, ret.value)])))

\* parse_property: one iteration of the loop (parse_propvalue is called and
\* reads its '['), the return of parse_propvalue, the end
PropertyStep ==
    /\ Running("parse_property")
    /\ LET call == Top(stack)
           t == ParserPeek0(tokens, pcur)
       IN CASE call.stage = "loop" ->
                  IF t.kind = "OpenSquare"
                  THEN Moved(pcur + 1,
                             Append(Replace(stack, [call EXCEPT !.stage = "value_ret"]),
                                    Call("parse_propvalue", "loop")))
                  ELSE IF Len(call.list) = 0
                  THEN Failed(pcur, create_error(tokens, pcur,
                                        Message("cannot have empty property list")))
                  ELSE Returned("parse_property", pcur, Property(call.ident, call.list))
            [] call.stage = "value_ret" ->
                  Moved(pcur, WithWhitespace(
                                 Replace(stack, [call EXCEPT !.stage = "loop",
                                                             !.list = Append(@, ret.value)])))

\* parse_propvalue with a loop that pushes the token and does not read it
PropValueStepNoRead ==
    /\ Running("parse_propvalue")
    /\ LET call == Top(stack)
           t == ParserPeek0(tokens, pcur)
       IN IF t.kind = "CloseSquare"
          THEN Returned("parse_propvalue", pcur + 1, call.list)
          ELSE IF t.kind = "Eof"
          THEN Failed(pcur + 1, unexpected(tokens, pcur, "eof while waiting for ']'"))
          ELSE Moved(pcur, Replace(stack, [call EXCEPT
                                              !.list = @ \o TokenDisplay(t)]))

\* parse_propvalue: one iteration of the loop; at a ']' the loop ends, the
\* ']' is read and the string returned
PropValueStep ==
    /\ Running("parse_propvalue")
    /\ LET call == Top(stack)
           t == ParserPeek0(tokens, pcur)
       IN IF t.kind = "CloseSquare"
          THEN Returned("parse_propvalue", pcur + 1, call.list)
          ELSE IF t.kind = "Eof"
          THEN Failed(pcur + 1, unexpected(tokens, pcur, "eof while waiting for ']'"))
          ELSE Moved(pcur + 1, Replace(stack, [call EXCEPT
                                                  !.list = @ \o TokenDisplay(t)]))

StepNext ==
    \/ ScanStep
    \/ ConsumeWhitespaceStep
    \/ ParseStep
    \/ GameTreeStep
    \/ SequenceStep
    \/ NodeStep
    \/ PropertyStep
    \/ PropValueStep

\* the program runs on while it has a step to take
StepSpec == StepInit /\ [][StepNext]_vars /\ WF_vars(StepNext)

\* the run has ended: parse has returned, or Parser::new has with an error
Returns == pc \in {"parsed", "no_parser"}

\* the run followed call by call ends as the run seen as a whole
StepsAgree ==
    /\ pc \in {"parse", "parsed"} => Scan(input).ok /\ tokens = Scan(input).tokens
    /\ pc = "no_parser" =>
          ~Scan(input).ok /\ result = Fail(0, FromScannerError(Scan(input).err))
    /\ pc = "parsed" => result = parse(tokens, 0)

----------------------------------------------------------------------------
(* What the claims are stated with: the token list read on its own, by      *)
(* bracket matching, without the parser.                                    *)

\* the index of the first '(' token, 0 when there is none
RECURSIVE FirstOpenFrom(_, _)
FirstOpenFrom(toks, i) ==
    IF i > Len(toks) THEN 0
    ELSE IF toks[i].kind = "OpenParen" THEN i
    ELSE FirstOpenFrom(toks, i + 1)

FirstOpen(toks) == FirstOpenFrom(toks, 1)

\* for each token from index i on, whether it is structural, that is, not
\* inside a bracketed value: a '[' opens a value, the next ']' token closes it
RECURSIVE StructuralFrom(_, _, _, _)
StructuralFrom(toks, i, inValue, acc) ==
    IF i > Len(toks) THEN acc
    ELSE StructuralFrom(toks, i + 1,
             IF inValue THEN toks[i].kind # "CloseSquare"
                        ELSE toks[i].kind = "OpenSquare",
             Append(acc, ~inValue \/ toks[i].kind = "CloseSquare"))

\* tokens before the first '(' are given FALSE as well
Structural(toks) ==
    IF FirstOpen(toks) = 0 THEN [i \in 1..Len(toks) |-> FALSE]
    ELSE StructuralFrom(toks, FirstOpen(toks), FALSE,
                        [i \in 1..(FirstOpen(toks) - 1) |-> FALSE])

\* the first token after index i that is neither whitespace nor newline
RECURSIVE NextSignificant(_, _)
NextSignificant(toks, i) ==
    IF i + 1 > Len(toks) THEN EofToken
    ELSE IF toks[i + 1].kind \in {"Whitespace", "Newline"}
         THEN NextSignificant(toks, i + 1)
    ELSE toks[i + 1]

Chars(str) == {str[i] : i \in 1..Len(str)}

Parsed == pc = "parsed"

Accepted == pc = "parsed" /\ result.ok

Rejected == pc = "parsed" /\ ~result.ok

----------------------------------------------------------------------------
(* C1 *)

\* C1: canonicalization is idempotent: the rendered text of an accepted
\* input is scanned and parsed with success, and gives a collection equal to
\* the first one.
C1_Idempotent ==
    round = 2 =>
        /\ pc # "no_parser"
        /\ pc = "parsed" => result.ok /\ result.val = first

\* the second reading is done, of a text the rendering changed, whose value
\* holds an escaped character
C1_Witness ==
    /\ round = 2
    /\ Accepted
    /\ input # source
    /\ \E i \in 1..Len(tokens) : tokens[i].kind = "Escaped"

----------------------------------------------------------------------------
(* C2 *)

RECURSIVE GameTreeNonEmpty(_)
GameTreeNonEmpty(gt) ==
    /\ Len(gt.sequence.nodes) >= 1
    /\ \A n \in 1..Len(gt.sequence.nodes) :
          \A p \in 1..Len(gt.sequence.nodes[n].props) :
             Len(gt.sequence.nodes[n].props[p].values) >= 1
    /\ \A c \in 1..Len(gt.gametrees) : GameTreeNonEmpty(gt.gametrees[c])

CollectionNonEmpty(c) ==
    /\ Len(c.gametrees) >= 1
    /\ \A i \in 1..Len(c.gametrees) : GameTreeNonEmpty(c.gametrees[i])

\* in the tokens parse has read, every '(' is followed by a node and every
\* property identifier by a value
NoEmptyList(toks, upto) ==
    /\ FirstOpen(toks) # 0
    /\ \A i \in FirstOpen(toks)..upto :
          Structural(toks)[i] =>
             /\ toks[i].kind = "OpenParen" =>
                   NextSignificant(toks, i).kind = "Semicolon"
             /\ toks[i].kind = "UcLetter" =>
                   NextSignificant(toks, i).kind = "OpenSquare"

\* C2: a collection parse returns has at least one game tree, every game
\* tree at least one node, every property at least one value; tokens that
\* would give an empty list are rejected, "()" and "(;C)" among them.
C2_NonEmpty ==
    /\ Accepted => CollectionNonEmpty(result.val) /\ NoEmptyList(tokens, result.cur)
    /\ Parsed /\ input = <<"(", ")">> =>
          ~result.ok /\ result.err.message = Message("cannot have empty node list")
    /\ Parsed /\ input = <<"(", ";", "C", ")">> =>
          ~result.ok /\ result.err.message = Message("cannot have empty property list")
    /\ Parsed /\ tokens = <<>> => ~result.ok

\* an accepted tree with a child game tree and a property of two values, and
\* the rejection of "(;C)"
C2_Witness ==
    \/ /\ Accepted
       /\ result.val.gametrees[1].gametrees # <<>>
       /\ \E n \in 1..Len(result.val.gametrees[1].sequence.nodes) :
             \E p \in 1..Len(result.val.gametrees[1].sequence.nodes[n].props) :
                Len(result.val.gametrees[1].sequence.nodes[n].props[p].values) = 2
    \/ Rejected /\ input = <<"(", ";", "C", ")">>

----------------------------------------------------------------------------
(* C3 *)

\* the last token before index i that is neither whitespace nor newline
RECURSIVE PrevSignificant(_, _)
PrevSignificant(toks, i) ==
    IF i - 1 < 1 THEN EofToken
    ELSE IF toks[i - 1].kind \in {"Whitespace", "Newline"}
         THEN PrevSignificant(toks, i - 1)
    ELSE toks[i - 1]

\* an identifier token is a run of identifier characters that no identifier
\* character follows, and is the uppercase kind exactly when all of it is A-Z
IdentifiersClassified(toks) ==
    \A i \in 1..Len(toks) :
       toks[i].kind \in {"UcLetter", "Identifier"} =>
          /\ toks[i].text # <<>>
          /\ \A j \in 1..Len(toks[i].text) : is_identifier(toks[i].text[j])
          /\ toks[i].kind = "UcLetter" <=> Chars(toks[i].text) \subseteq UpperLetters
          /\ i < Len(toks) =>
                toks[i + 1].kind \notin {"UcLetter", "Identifier", "Integer"}

\* the property identifiers of a game tree, at every depth
RECURSIVE GameTreeIdents(_)
GameTreeIdents(gt) ==
    UNION {{gt.sequence.nodes[n].props[p].ident :
               p \in 1..Len(gt.sequence.nodes[n].props)} :
           n \in 1..Len(gt.sequence.nodes)}
    \cup UNION {GameTreeIdents(gt.gametrees[c]) : c \in 1..Len(gt.gametrees)}

CollectionIdents(c) ==
    UNION {GameTreeIdents(c.gametrees[i]) : i \in 1..Len(c.gametrees)}

\* in the tokens parse has read, no structural token is a general identifier
\* and every structural '[' follows an uppercase identifier or a value
PropertiesStartUppercase(toks, upto) ==
    \A i \in FirstOpen(toks)..upto :
       Structural(toks)[i] =>
          /\ toks[i].kind # "Identifier"
          /\ toks[i].kind = "OpenSquare" =>
                PrevSignificant(toks, i).kind \in {"UcLetter", "CloseSquare"}

\* C3: the scanner makes an uppercase identifier exactly of a run that is all
\* A-Z; parse accepts a property only when it starts with such a token, so
\* "(;GM[1])" is accepted, and a general identifier or a '[' in the place of
\* a property identifier ("(;gm[1])", "(;[1])") is rejected.
C3_UppercaseIdentifiers ==
    /\ pc \in {"ready", "parsed"} => IdentifiersClassified(tokens)
    /\ Accepted =>
          /\ PropertiesStartUppercase(tokens, result.cur)
          /\ \A id \in CollectionIdents(result.val) :
                id # <<>> /\ Chars(id) \subseteq UpperLetters
    /\ Parsed /\ input = <<"(", ";", "G", "M", "[", "1", "]", ")">> =>
          /\ result.ok
          /\ CollectionIdents(result.val) = {<<"G", "M">>}
    /\ (/\ Parsed
        /\ Len(tokens) >= 3
        /\ tokens[1].kind = "OpenParen"
        /\ tokens[2].kind = "Semicolon"
        /\ NextSignificant(tokens, 2).kind \in {"Identifier", "OpenSquare"})
       => ~result.ok

\* the rejection of an identifier that starts with an uppercase letter and
\* holds another character, followed by a value
C3_Witness ==
    /\ Rejected
    /\ Len(tokens) >= 4
    /\ tokens[3].kind = "Identifier"
    /\ tokens[3].text[1] \in UpperLetters
    /\ tokens[4].kind = "OpenSquare"

----------------------------------------------------------------------------
(* C4 *)

\* the values of a game tree, at every depth
RECURSIVE GameTreeValues(_)
GameTreeValues(gt) ==
    UNION {UNION {Chars(gt.sequence.nodes[n].props[p].values) :
                     p \in 1..Len(gt.sequence.nodes[n].props)} :
           n \in 1..Len(gt.sequence.nodes)}
    \cup UNION {GameTreeValues(gt.gametrees[c]) : c \in 1..Len(gt.gametrees)}

CollectionValues(c) ==
    UNION {GameTreeValues(c.gametrees[i]) : i \in 1..Len(c.gametrees)}

\* among the tokens parse has read there is an escaped ']'
EscapedCloseRead ==
    \E i \in FirstOpen(tokens)..result.cur :
       FirstOpen(tokens) # 0 /\ tokens[i].kind = "Escaped" /\ tokens[i].text = <<"]">>

\* a ']' of the value that the escaping backslash does not precede
UnescapedClose(v) ==
    \E i \in 1..Len(v) : v[i] = "]" /\ (i = 1 \/ v[i - 1] # "\\")

Parse4Text ==
    <<"(", ";", "Z", "Z", "[", "a", "o", "e", "u", " ", "[", "1", "k",
      "\\", "]", "]", ")">>

\* "(;X[", a body with no ']' token, "])"
OneValueTokens(toks) ==
    /\ Len(toks) >= 6
    /\ toks[1].kind = "OpenParen"
    /\ toks[2].kind = "Semicolon"
    /\ toks[3].kind = "UcLetter"
    /\ toks[4].kind = "OpenSquare"
    /\ toks[Len(toks) - 1].kind = "CloseSquare"
    /\ toks[Len(toks)].kind = "CloseParen"
    /\ \A i \in 5..(Len(toks) - 2) : toks[i].kind # "CloseSquare"

\* C4 as stated: after an accepted input with an escaped ']' in a value, a
\* value's text holds the ']' as an unescaped character.
C4_Original ==
    Accepted /\ EscapedCloseRead =>
        \E v \in CollectionValues(result.val) : UnescapedClose(v)

\* C4 as amended: an escaped ']' does not end the value, and the value's
\* text keeps it as it was written, the backslash and then the ']'; for
\* "(;ZZ[aoeu [1k\]])" the property ZZ has the one value "aoeu [1k\]".
C4_EscapeKept ==
    /\ Accepted /\ EscapedCloseRead =>
          /\ \E v \in CollectionValues(result.val) : "]" \in Chars(v)
          /\ \A v \in CollectionValues(result.val) : ~UnescapedClose(v)
    /\ Parsed /\ OneValueTokens(tokens) =>
          /\ result.ok
          /\ Len(result.val.gametrees) = 1
          /\ Len(result.val.gametrees[1].sequence.nodes) = 1
          /\ Len(result.val.gametrees[1].sequence.nodes[1].props) = 1
          /\ Len(result.val.gametrees[1].sequence.nodes[1].props[1].values) = 1
    /\ Parsed /\ input = Parse4Text =>
          /\ result.ok
          /\ result.val.gametrees[1].sequence.nodes[1].props =
                <<Property(<<"Z", "Z">>,
                           << <<"a", "o", "e", "u", " ", "[", "1", "k", "\\", "]">> >>)>>

\* tests::parse4 is accepted
C4_Witness == Accepted /\ round = 1 /\ input = Parse4Text /\ EscapedCloseRead

----------------------------------------------------------------------------
(* C5 *)

\* for each token from index i on, the number of structural '(' not yet
\* closed before it; st is Structural(toks)
RECURSIVE DepthFrom(_, _, _, _, _)
DepthFrom(toks, st, i, d, acc) ==
    IF i > Len(toks) THEN acc
    ELSE DepthFrom(toks, st, i + 1,
             IF st[i] /\ toks[i].kind = "OpenParen" THEN d + 1
             ELSE IF st[i] /\ toks[i].kind = "CloseParen" THEN d - 1
             ELSE d,
             Append(acc, d))

Depth(toks) == DepthFrom(toks, Structural(toks), 1, 0, <<>>)

\* the elements of a set of numbers in increasing order
RECURSIVE Ascending(_)
Ascending(S) ==
    IF S = {} THEN <<>>
    ELSE LET m == CHOOSE x \in S : \A y \in S : x <= y
         IN <<m>> \o Ascending(S \ {m})

\* the ')' that closes the '(' at index i, Len(toks) + 1 when there is none
ClosingParen(toks, st, dp, i) ==
    LET closers == {j \in (i + 1)..Len(toks) :
                       st[j] /\ toks[j].kind = "CloseParen" /\ dp[j] = dp[i] + 1}
    IN IF closers = {} THEN Len(toks) + 1
       ELSE CHOOSE j \in closers : \A k \in closers : j <= k

\* the structural tokens of a kind directly inside the game tree opened at i
Inside(toks, st, dp, i, kind) ==
    Ascending({j \in (i + 1)..(ClosingParen(toks, st, dp, i) - 1) :
                  st[j] /\ toks[j].kind = kind /\ dp[j] = dp[i] + 1})

\* the game tree has the shape of the tokens from the '(' at index i on: a
\* node for each ';' and a child for each '(' directly inside, in their order
RECURSIVE GameTreeMatches(_, _, _, _, _)
GameTreeMatches(gt, toks, st, dp, i) ==
    LET semis == Inside(toks, st, dp, i, "Semicolon")
        opens == Inside(toks, st, dp, i, "OpenParen")
    IN /\ Len(gt.sequence.nodes) = Len(semis)
       /\ \A n \in 1..Len(semis) :
             LET t == NextSignificant(toks, semis[n])
                 props == gt.sequence.nodes[n].props
             IN IF t.kind = "UcLetter"
                THEN props # <<>> /\ props[1].ident = t.text
                ELSE props = <<>>
       /\ Len(gt.gametrees) = Len(opens)
       /\ \A c \in 1..Len(opens) :
             GameTreeMatches(gt.gametrees[c], toks, st, dp, opens[c])

\* the root game trees: the structural '(' outside every game tree, among
\* the tokens parse has read
Roots(toks, st, dp, upto) ==
    Ascending({j \in 1..upto : st[j] /\ toks[j].kind = "OpenParen" /\ dp[j] = 0})

Parse5Text ==
    <<"(", ";", "G", "M", "[", "1", "]",
      "(", ";", "B", "[", "a", "a", "]", ";", "W", "[", "a", "b", "]", ")",
      "(", ";", "B", "[", "a", "b", "]", ";", "W", "[", "a", "c", "]", ")", ")">>

\* C5: every game tree of an accepted input has one child for each "(...)"
\* directly inside it and one node for each ';' directly inside it, in source
\* order; for "(;GM[1](;B[aa];W[ab])(;B[ab];W[ac]))" the root has one node
\* and two children of two nodes each.
C5_Variations ==
    /\ Accepted =>
          LET st == Structural(tokens)
              dp == Depth(tokens)
              roots == Roots(tokens, st, dp, result.cur)
          IN /\ Len(result.val.gametrees) = Len(roots)
             /\ \A r \in 1..Len(roots) :
                   GameTreeMatches(result.val.gametrees[r], tokens, st, dp, roots[r])
    /\ Parsed /\ input = Parse5Text =>
          /\ result.ok
          /\ Len(result.val.gametrees) = 1
          /\ Len(result.val.gametrees[1].sequence.nodes) = 1
          /\ Len(result.val.gametrees[1].gametrees) = 2
          /\ \A c \in 1..2 :
                /\ Len(result.val.gametrees[1].gametrees[c].sequence.nodes) = 2
                /\ result.val.gametrees[1].gametrees[c].gametrees = <<>>
          /\ result.val.gametrees[1].gametrees[1].sequence.nodes[1].props[1].values
                = << <<"a", "a">> >>
          /\ result.val.gametrees[1].gametrees[2].sequence.nodes[1].props[1].values
                = << <<"a", "b">> >>

\* an accepted game tree with two children that differ: the first has a
\* property, the second has none
C5_Witness ==
    /\ Accepted
    /\ Len(result.val.gametrees[1].gametrees) = 2
    /\ result.val.gametrees[1].gametrees[1].sequence.nodes[1].props # <<>>
    /\ result.val.gametrees[1].gametrees[2].sequence.nodes[1].props = <<>>

----------------------------------------------------------------------------
(* C6 *)

\* s is t with the values of the properties named k replaced by one empty
\* string, and nothing else changed
RECURSIVE StrippedOf(_, _, _)
StrippedOf(s, t, k) ==
    /\ Len(s.sequence.nodes) = Len(t.sequence.nodes)
    /\ \A n \in 1..Len(t.sequence.nodes) :
          /\ Len(s.sequence.nodes[n].props) = Len(t.sequence.nodes[n].props)
          /\ \A p \in 1..Len(t.sequence.nodes[n].props) :
                /\ s.sequence.nodes[n].props[p].ident
                      = t.sequence.nodes[n].props[p].ident
                /\ s.sequence.nodes[n].props[p].values
                      = IF t.sequence.nodes[n].props[p].ident = k
                        THEN << <<>> >>
                        ELSE t.sequence.nodes[n].props[p].values
    /\ Len(s.gametrees) = Len(t.gametrees)
    /\ \A c \in 1..Len(t.gametrees) : StrippedOf(s.gametrees[c], t.gametrees[c], k)

\* C6: strip_key keeps the shape and the identifiers of the game tree, gives
\* every property named by the key the value list [""], leaves every other
\* value list as it was, and so returns an equal tree when the key is absent.
C6_StripKey ==
    pc = "stripped" =>
        /\ Len(stripped) = Len(result.val.gametrees)
        /\ \A i \in 1..Len(result.val.gametrees) :
              /\ StrippedOf(stripped[i], result.val.gametrees[i], key)
              /\ key \notin GameTreeIdents(result.val.gametrees[i]) =>
                    stripped[i] = result.val.gametrees[i]

\* PB is stripped from a tree that holds PB[Black] and, in a child, PB[],
\* beside PW with two values and C[PB]
PlayersText ==
    <<"(", ";", "P", "B", "[", "B", "l", "a", "c", "k", "]",
      "P", "W", "[", "W", "h", "i", "t", "e", "]", "[", "x", "]",
      "(", ";", "P", "B", "[", "]", ";", "C", "[", "P", "B", "]", ")", ")">>

C6_Witness ==
    /\ pc = "stripped"
    /\ source = PlayersText
    /\ key = <<"P", "B">>
    /\ result.val.gametrees[1].sequence.nodes[1].props[1]
          = Property(<<"P", "B">>, << <<"B", "l", "a", "c", "k">> >>)
    /\ stripped[1].sequence.nodes[1].props[1] = Property(<<"P", "B">>, << <<>> >>)
    /\ Len(stripped[1].sequence.nodes[1].props[2].values) = 2
    /\ stripped[1].gametrees[1].sequence.nodes[2].props[1]
          = Property(<<"C">>, << <<"P", "B">> >>)

----------------------------------------------------------------------------
(* C7 *)

\* the concatenation of the texts of a sequence of texts
RECURSIVE Concat(_)
Concat(ss) == IF ss = <<>> THEN <<>> ELSE Head(ss) \o Concat(Tail(ss))

PropertyText(p) ==
    p.ident \o Concat([i \in 1..Len(p.values) |-> <<"[">> \o p.values[i] \o <<"]">>])

NodeText(n) == <<";">> \o Concat([i \in 1..Len(n.props) |-> PropertyText(n.props[i])])

RECURSIVE GameTreeText(_)
GameTreeText(gt) ==
    <<"(">>
    \o Concat([i \in 1..Len(gt.sequence.nodes) |-> NodeText(gt.sequence.nodes[i])])
    \o Concat([i \in 1..Len(gt.gametrees) |-> GameTreeText(gt.gametrees[i])])
    \o <<")">>

CollectionText(c) == Concat([i \in 1..Len(c.gametrees) |-> GameTreeText(c.gametrees[i])])

RECURSIVE Sum(_)
Sum(ns) == IF ns = <<>> THEN 0 ELSE Head(ns) + Sum(Tail(ns))

\* the number of characters the rendering of a game tree must have: two
\* parentheses, a ';' for each node, each identifier, and each value with its
\* two brackets
RECURSIVE GameTreeSize(_)
GameTreeSize(gt) ==
    2
    + Sum([n \in 1..Len(gt.sequence.nodes) |->
             1 + Sum([p \in 1..Len(gt.sequence.nodes[n].props) |->
                        Len(gt.sequence.nodes[n].props[p].ident)
                        + Sum([v \in 1..Len(gt.sequence.nodes[n].props[p].values) |->
                                 2 + Len(gt.sequence.nodes[n].props[p].values[v])])])])
    + Sum([c \in 1..Len(gt.gametrees) |-> GameTreeSize(gt.gametrees[c])])

\* C7: the rendering of a collection is the concatenation of its game trees,
\* each "(" sequence children ")", each node ";" and its properties, each
\* property its identifier and "[value]" for each value, and nothing else.
C7_Serialization ==
    pc = "displayed" =>
        /\ text = CollectionText(result.val)
        /\ Len(text) = Sum([i \in 1..Len(result.val.gametrees) |->
                               GameTreeSize(result.val.gametrees[i])])

\* the rendering of a collection with a child game tree, two nodes in a
\* sequence and a property of two values
C7_Witness ==
    /\ pc = "displayed"
    /\ text # <<>>
    /\ result.val.gametrees[1].gametrees # <<>>
    /\ \E n \in 1..Len(result.val.gametrees[1].sequence.nodes) :
          \E p \in 1..Len(result.val.gametrees[1].sequence.nodes[n].props) :
             Len(result.val.gametrees[1].sequence.nodes[n].props[p].values) = 2
    /\ Len(result.val.gametrees[1].gametrees[1].sequence.nodes) = 2

----------------------------------------------------------------------------
(* C8 *)

\* C8: tokens with no '(' among them are rejected: with "empty file" when
\* there is no token, else with "cannot have empty collection" at the
\* position of the last token.
C8_NoOpenParen ==
    Parsed /\ FirstOpen(tokens) = 0 =>
        /\ ~result.ok
        /\ IF tokens = <<>>
           THEN result.err = [located |-> FALSE, pos |-> NoPosition,
                              message |-> Message("empty file")]
           ELSE result.err = [located |-> TRUE,
                              pos |-> TokenPosition(tokens[Len(tokens)]),
                              message |-> Message("cannot have empty collection")]

\* the rejection of two tokens or more, none a '(', the last on line 2
C8_Witness ==
    /\ Rejected
    /\ FirstOpen(tokens) = 0
    /\ Len(tokens) >= 2
    /\ result.err.pos.row = 2

----------------------------------------------------------------------------
(* C9 *)

\* the root game tree opened at index r, or one that follows it, has no
\* closing ')' among the tokens
RECURSIVE RootUnclosed(_, _, _, _)
RootUnclosed(toks, st, dp, r) ==
    IF ClosingParen(toks, st, dp, r) > Len(toks) THEN TRUE
    ELSE IF ClosingParen(toks, st, dp, r) + 1 <= Len(toks)
            /\ toks[ClosingParen(toks, st, dp, r) + 1].kind = "OpenParen"
         THEN RootUnclosed(toks, st, dp, ClosingParen(toks, st, dp, r) + 1)
    ELSE FALSE

EndsInsideGameTree(toks) ==
    /\ FirstOpen(toks) # 0
    /\ RootUnclosed(toks, Structural(toks), Depth(toks), FirstOpen(toks))

\* the last token opens a value or stands inside one
EndsInsideValue(toks) ==
    /\ FirstOpen(toks) # 0
    /\ \/ ~Structural(toks)[Len(toks)]
       \/ toks[Len(toks)].kind = "OpenSquare"

\* the index of the '[' of the value the tokens end in
OpenValue(toks) ==
    CHOOSE q \in 1..Len(toks) :
       /\ Structural(toks)[q] /\ toks[q].kind = "OpenSquare"
       /\ \A j \in (q + 1)..Len(toks) : ~Structural(toks)[j]

\* the tokens up to that '[', then ']' and a ')' for each open game tree
Completed(toks) ==
    SubSeq(toks, 1, OpenValue(toks))
    \o <<Token("CloseSquare", NoPosition, <<>>)>>
    \o [i \in 1..Depth(toks)[OpenValue(toks)] |-> Token("CloseParen", NoPosition, <<>>)]

EofWaiting == UnexpectedMessage(EofToken, "eof while waiting for ']'")

\* C9: tokens that end inside a game tree are rejected; when they end inside
\* a value that the parser has reached (closing the value and the game
\* trees would make them accepted), the message is the "eof while waiting
\* for ']'" one, as for "(;A["; "(", newline, ";" is rejected at the end of
\* the tokens.
C9_PrematureEnd ==
    /\ Parsed /\ EndsInsideGameTree(tokens) => ~result.ok
    /\ (/\ Parsed
        /\ EndsInsideGameTree(tokens)
        /\ EndsInsideValue(tokens)
        /\ parse(Completed(tokens), 0).ok)
       => ~result.ok /\ result.err.message = EofWaiting
    /\ Parsed /\ input = <<"(", ";", "A", "[">> =>
          ~result.ok /\ result.err.message = EofWaiting
    /\ Parsed /\ input = <<"(", "\n", ";">> =>
          /\ ~result.ok
          /\ result.err.message = UnexpectedMessage(EofToken, "in parse_gametree")

\* the rejection of tokens that end inside a value holding an escaped ']'
C9_Witness ==
    /\ Rejected
    /\ EndsInsideGameTree(tokens)
    /\ EndsInsideValue(tokens)
    /\ result.err.message = EofWaiting
    /\ \E i \in 1..Len(tokens) : tokens[i].kind = "Escaped" /\ tokens[i].text = <<"]">>

----------------------------------------------------------------------------
(* C10 *)

\* the token a parse error is about: the unexpected token of an "unexpected"
\* message, else the token at the cursor; the last token when that is the
\* end of the tokens
Offending(toks, r) ==
    IF r.err.message.unexpected
    THEN IF r.err.message.tok.kind = "Eof" THEN toks[Len(toks)]
         ELSE r.err.message.tok
    ELSE IF r.cur >= Len(toks) THEN toks[Len(toks)]
         ELSE toks[r.cur + 1]

\* C10: a parse error on a non-empty token list carries the position of the
\* offending token, or of the last token when the end of the tokens was
\* reached.  (unexpected reads the token before create_error takes the
\* position at the cursor, so the error of an unexpected token carries the
\* position of the token after it.)
C10_ErrorPosition ==
    Rejected /\ tokens # <<>> =>
        /\ result.err.located
        /\ result.err.pos = TokenPosition(Offending(tokens, result))

----------------------------------------------------------------------------
(* C11 *)

\* the number of backslashes that stand directly before index p
RECURSIVE BackslashesBefore(_, _)
BackslashesBefore(str, p) ==
    IF p > 1 /\ str[p - 1] = "\\" THEN 1 + BackslashesBefore(str, p - 1) ELSE 0

\* the character at p is the one an escaping backslash takes with it
EscapedAt(str, p) == BackslashesBefore(str, p) % 2 = 1

\* the index of the first NUL character, Len(str) + 1 when there is none
FirstNul(str) ==
    IF \E p \in 1..Len(str) : str[p] = NUL
    THEN CHOOSE p \in 1..Len(str) :
            str[p] = NUL /\ \A q \in 1..(p - 1) : str[q] # NUL
    ELSE Len(str) + 1

\* the maximal runs of digits before any NUL, as <<first, last>>
DigitRuns(str) ==
    {r \in (1..Len(str)) \X (1..Len(str)) :
        /\ r[1] <= r[2]
        /\ r[2] < FirstNul(str)
        /\ \A p \in r[1]..r[2] : str[p] \in Digits
        /\ r[1] = 1 \/ str[r[1] - 1] \notin Digits
        /\ r[2] = Len(str) \/ str[r[2] + 1] \notin Digits}

\* the value of the digits is above u64::MAX: more digits than it has once
\* the leading zeros are dropped, or as many and a greater digit at the
\* first place where they differ
ExceedsU64(ds) ==
    LET z == {p \in 1..Len(ds) : \A q \in 1..p : ds[q] = "0"}
        n == SubSeq(ds, Cardinality(z) + 1, Len(ds))
    IN \/ Len(n) > Len(U64MaxDigits)
       \/ /\ Len(n) = Len(U64MaxDigits)
          /\ \E p \in 1..Len(n) :
                /\ DigitValue(n[p]) > DigitValue(U64MaxDigits[p])
                /\ \A q \in 1..(p - 1) : n[q] = U64MaxDigits[q]

\* the digits of a maximal run that the scanner meets at its lookahead and
\* reads as one number: none when the run continues an identifier, the run
\* without its first digit when an escaping backslash takes that digit
NumberOfRun(str, r) ==
    IF EscapedAt(str, r[1]) THEN SubSeq(str, r[1] + 1, r[2])
    ELSE IF r[1] > 1 /\ is_identifier_start(str[r[1] - 1]) /\ ~EscapedAt(str, r[1] - 1)
         THEN <<>>
    ELSE SubSeq(str, r[1], r[2])

\* Parser::new has returned the scan error of a number: no parser, no tokens,
\* no collection, and the error in the parser's type
NumberScanError ==
    /\ pc = "no_parser"
    /\ tokens = <<>>
    /\ ~result.ok
    /\ result.val = <<>>
    /\ result.err.located
    /\ result.err.message = TooLarge

\* C11 as stated: whenever a maximal run of digits before any NUL has a
\* value above u64::MAX, wherever it stands, Parser::new returns the scan
\* error and there is no parser.
C11_Original ==
    pc # "new" /\ (\E r \in DigitRuns(input) : ExceedsU64(SubSeq(input, r[1], r[2])))
        => NumberScanError

\* C11 as amended: whenever a maximal run of digits before any NUL, met at
\* the scanner's lookahead (not continuing an identifier, and without its
\* first digit when an escaping backslash takes it), has a value above
\* u64::MAX, Parser::new returns the scan error as a parser error and there
\* is no parser, no token list and no collection; on one line the error
\* carries the column of the run's last digit.  u64::MAX itself is read,
\* u64::MAX + 1 is not.
C11_Overflow ==
    /\ pc # "new" =>
          \A r \in DigitRuns(input) :
             ExceedsU64(NumberOfRun(input, r)) =>
                /\ NumberScanError
                /\ "\n" \notin Chars(input) => result.err.pos.row = 1
                /\ ("\n" \notin Chars(input)
                    /\ \A q \in DigitRuns(input) :
                          ExceedsU64(NumberOfRun(input, q)) => q[1] >= r[1])
                      => result.err.pos = Position(1, r[2])
    /\ pc = "no_parser" => NumberScanError
    /\ Parsed /\ input = <<"(", ";", "A", "[">> \o U64MaxDigits \o <<"]", ")">> =>
          /\ result.ok
          /\ result.val.gametrees[1].sequence.nodes[1].props[1].values
                = <<U64MaxDigits>>
    /\ pc # "new" /\ input = <<"(", ";", "A", "[">> \o U64MaxSucc \o <<"]", ")">> =>
          NumberScanError

\* the scan error of twenty digits that follow an escaped backslash inside a
\* value, and of twenty digits before the first game tree
C11_Witness ==
    /\ NumberScanError
    /\ \/ /\ Len(input) > 6
          /\ SubSeq(input, 1, 6) = <<"(", ";", "A", "[", "\\", "\\">>
          /\ input[7] = "9"
       \/ input[1] = "x" /\ input[2] = "9"

----------------------------------------------------------------------------
(* C12 *)

\* the tokens at the indices of a set, in their order
Selected(toks, S) == [k \in 1..Cardinality(S) |-> toks[Ascending(S)[k]]]

\* a whitespace or newline token outside the values, after the first '('
StructuralWhitespace(toks, i) ==
    /\ FirstOpen(toks) # 0
    /\ i > FirstOpen(toks)
    /\ Structural(toks)[i]
    /\ toks[i].kind \in {"Whitespace", "Newline"}

\* the tokens without the whitespace and newline tokens outside the values
WithoutWhitespace(toks) ==
    Selected(toks, {i \in 1..Len(toks) : ~StructuralWhitespace(toks, i)})

\* the same, for the whitespace and newline tokens inside a game tree only
WithoutWhitespaceInside(toks) ==
    Selected(toks, {i \in 1..Len(toks) :
                       ~(StructuralWhitespace(toks, i) /\ Depth(toks)[i] >= 1)})

\* C12: whitespace and newline tokens outside the values are insignificant:
\* when the tokens without them are accepted, the tokens with them (between
\* two game trees, root game trees included, between '(' and a node, between
\* nodes, properties, an identifier and its values, before a ')') are
\* accepted with the same collection.
C12_Whitespace ==
    Parsed /\ parse(WithoutWhitespace(tokens), 0).ok =>
        /\ result.ok
        /\ result.val = parse(WithoutWhitespace(tokens), 0).val

\* what holds of the code: the whitespace and newline tokens inside a game
\* tree are insignificant
WhitespaceInsideGameTree ==
    Parsed /\ parse(WithoutWhitespaceInside(tokens), 0).ok =>
        /\ result.ok
        /\ result.val = parse(WithoutWhitespaceInside(tokens), 0).val

\* whitespace inside a game tree has been skipped
WhitespaceInsideSkipped ==
    /\ Accepted
    /\ \E i \in 1..result.cur : StructuralWhitespace(tokens, i) /\ Depth(tokens)[i] >= 1

----------------------------------------------------------------------------
(* C13 *)

\* the tokens from the first '(' on
FromFirstOpen(toks) == SubSeq(toks, FirstOpen(toks), Len(toks))

\* C13: tokens G without a '(' before tokens T that start with a '(' are
\* discarded: parse gives on G followed by T what it gives on T alone, the
\* same collection or the same error, having read the tokens of G and then
\* as many tokens of T; nothing of G is in the tree.
C13_LeadingGarbage ==
    Parsed /\ FirstOpen(tokens) > 1 =>
        /\ result.ok = parse(FromFirstOpen(tokens), 0).ok
        /\ result.val = parse(FromFirstOpen(tokens), 0).val
        /\ result.err = parse(FromFirstOpen(tokens), 0).err
        /\ result.cur = parse(FromFirstOpen(tokens), 0).cur + FirstOpen(tokens) - 1
        /\ result.ok =>
              /\ CollectionIdents(result.val)
                    = CollectionIdents(parse(FromFirstOpen(tokens), 0).val)
              /\ Len(result.val.gametrees)
                    = Len(Roots(tokens, Structural(tokens), Depth(tokens), result.cur))

\* an accepted input with a ';' or a '[' or a ')' among two tokens or more
\* before the first '(', and a rejected one
C13_Witness ==
    /\ Parsed
    /\ FirstOpen(tokens) > 2
    /\ \E i \in 1..(FirstOpen(tokens) - 1) :
          tokens[i].kind \in {"Semicolon", "OpenSquare", "CloseParen"}
    /\ \/ result.ok /\ CollectionIdents(result.val) = {<<"A">>}
       \/ ~result.ok /\ result.err.located

----------------------------------------------------------------------------
(* C14 *)

\* the value bodies of a text, in their order: the characters between a '['
\* met outside a value and the next ']' that no backslash escapes; a
\* backslash takes the character after it with it
RECURSIVE ValueBodies(_, _, _, _, _)
ValueBodies(str, i, inValue, cur, acc) ==
    IF i > Len(str) THEN acc
    ELSE IF str[i] = "\\"
         THEN ValueBodies(str, i + 2, inValue,
                          IF inValue
                          THEN cur \o SubSeq(str, i, IF i < Len(str) THEN i + 1 ELSE i)
                          ELSE cur,
                          acc)
    ELSE IF inValue
         THEN IF str[i] = "]"
              THEN ValueBodies(str, i + 1, FALSE, <<>>, Append(acc, cur))
              ELSE ValueBodies(str, i + 1, TRUE, Append(cur, str[i]), acc)
    ELSE ValueBodies(str, i + 1, str[i] = "[", <<>>, acc)

\* the values of a game tree in source order: its nodes, then its children
RECURSIVE GameTreeValueList(_)
GameTreeValueList(gt) ==
    Concat([n \in 1..Len(gt.sequence.nodes) |->
              Concat([p \in 1..Len(gt.sequence.nodes[n].props) |->
                        gt.sequence.nodes[n].props[p].values])])
    \o Concat([c \in 1..Len(gt.gametrees) |-> GameTreeValueList(gt.gametrees[c])])

CollectionValueList(c) ==
    Concat([i \in 1..Len(c.gametrees) |-> GameTreeValueList(c.gametrees[i])])

\* the input starts with its first game tree, holds no NUL, and parse has
\* read all of its tokens
ReadWhole ==
    /\ Accepted
    /\ input # <<>>
    /\ input[1] = "("
    /\ NUL \notin Chars(input)
    /\ result.cur = Len(tokens)

\* C14: the values of the collection are the value bodies of the input,
\* character for character: runs of spaces, tabs and newlines, digit runs
\* with leading zeros, escaped characters, structural characters and
\* non-ASCII characters included.
C14_Verbatim ==
    ReadWhole => CollectionValueList(result.val) = ValueBodies(input, 1, FALSE, <<>>, <<>>)

----------------------------------------------------------------------------
(* C19 *)

\* the first k tokens are accepted on their own, and the token after them,
\* when there is one, is not a '('
AcceptedPrefix(toks, k) ==
    /\ parse(SubSeq(toks, 1, k), 0).ok
    /\ k < Len(toks) => toks[k + 1].kind # "OpenParen"

\* C19: parse stops at the first token after a complete root game tree that
\* is not a '(': when tokens T are accepted with a collection, T followed by
\* tokens R, none or the first not a '(', are accepted with the same
\* collection and the cursor where it stopped in T, whatever R holds; the
\* result is that of the tokens up to the cursor alone.
C19_StopsAfterRoot ==
    /\ Parsed =>
          \A k \in 1..Len(tokens) :
             AcceptedPrefix(tokens, k) =>
                /\ result.ok
                /\ result.val = parse(SubSeq(tokens, 1, k), 0).val
                /\ result.cur = parse(SubSeq(tokens, 1, k), 0).cur
    /\ Accepted =>
          /\ result.cur <= Len(tokens)
          /\ tokens[result.cur].kind = "CloseParen"
          /\ result.cur < Len(tokens) => tokens[result.cur + 1].kind # "OpenParen"
          /\ parse(SubSeq(tokens, 1, result.cur), 0) = result

\* an accepted input with a stray ')' or an unterminated value or another
\* game tree among the tokens that follow the cursor
C19_Witness ==
    /\ Accepted
    /\ result.cur + 2 <= Len(tokens)
    /\ tokens[result.cur + 1].kind \in {"CloseParen", "Whitespace", "OpenSquare"}
    /\ \E i \in (result.cur + 2)..Len(tokens) : tokens[i].kind \in {"OpenParen", "OpenSquare"}

----------------------------------------------------------------------------
(* C15 *)

\* the element at an index of a buffer, the sentinel when there is none; the
\* first element has index 0
ElementOr(buffer, index, sentinel) ==
    IF index < Len(buffer) THEN buffer[index + 1] ELSE sentinel

\* the element n after the cursor; an n written as a negative number is one
\* near usize::MAX, and cursor + n is then beyond every buffer
ElementAhead(buffer, cursor, n, sentinel) ==
    IF n < 0 THEN sentinel ELSE ElementOr(buffer, cursor + n, sentinel)

\* C15: peek(n) and read() never fail: for every n, buffer and cursor,
\* peek(n) returns the element at index cursor + n, or the sentinel (NUL,
\* Token::Eof) when that index is outside the buffer, and leaves the cursor;
\* read() returns the element at the cursor, or the sentinel, and moves the
\* cursor by one.
C15_Lookahead ==
    /\ pc # "panicked"
    /\ ret.call = "Scanner::peek" =>
          /\ ret.value = ElementAhead(scanner.input, ret.at, ret.n, NUL)
          /\ scanner.cur = ret.at
    /\ ret.call = "Scanner::read" =>
          /\ ret.value = ElementOr(scanner.input, ret.at, NUL)
          /\ scanner.cur = ret.at + 1
    /\ ret.call = "Parser::peek" =>
          /\ ret.value = ElementAhead(tokens, ret.at, ret.n, EofToken)
          /\ pcur = ret.at
    /\ ret.call = "Parser::read" =>
          /\ ret.value = ElementOr(tokens, ret.at, EofToken)
          /\ pcur = ret.at + 1

----------------------------------------------------------------------------
(* C16 *)

\* C16: at every backslash at the scanner's lookahead, the scanner reads two
\* characters of the input, the backslash and the character after it, never
\* moving beyond the end of the input, and adds one escaped-character token
\* that carries this character.
C16_Escaped ==
    [][pc = "scan" /\ ScannerPeek0(scanner) = "\\" =>
          /\ scanner.cur + 2 <= Len(scanner.input)
          /\ scanner'.cur = scanner.cur + 2
          /\ scanned' = Append(scanned,
                               Token("Escaped", scanner'.pos,
                                     <<scanner.input[scanner.cur + 2]>>))]_vars

\* what holds of the code: the claim, for every backslash that is not the
\* last character of the input
EscapedBeforeTheEnd ==
    [][pc = "scan" /\ ScannerPeek0(scanner) = "\\"
          /\ scanner.cur + 2 <= Len(scanner.input) =>
          /\ scanner'.cur = scanner.cur + 2
          /\ scanned' = Append(scanned,
                               Token("Escaped", scanner'.pos,
                                     <<scanner.input[scanner.cur + 2]>>))]_vars

----------------------------------------------------------------------------
(* C17 *)

\* C17: when scan returns a token list, the scanner has read every
\* character of the input: the scan has stopped at the end of the input and
\* nowhere before, so that no character is left after the last token.
C17_Complete ==
    pc \in {"parse", "parsed"} => scanner.cur >= Len(scanner.input)

\* what holds of the code: the scan stops at the first NUL character that no
\* backslash escapes, or at the end of the input when there is none
StopsAtNul ==
    pc \in {"parse", "parsed"} =>
        \/ scanner.cur >= Len(scanner.input)
        \/ /\ scanner.input[scanner.cur + 1] = NUL
           /\ \A p \in 1..scanner.cur :
                 scanner.input[p] = NUL => EscapedAt(scanner.input, p)

----------------------------------------------------------------------------
(* C18 *)

\* the scan_* functions that loop
ScanLoops == {"scan_whitespace", "scan_newlines", "scan_number", "scan_identifier"}

\* the condition on which the loop of the scan_* function entered goes round
LoopContinues ==
    CASE pc = "scan_whitespace" -> ScannerPeek0(scanner) \in {" ", "\t", "\r"}
      [] pc = "scan_newlines" -> ScannerPeek0(scanner) = "\n"
      [] pc = "scan_number" -> is_digit(ScannerPeek0(scanner))
      [] pc = "scan_identifier" -> is_identifier(ScannerPeek0(scanner))
      [] OTHER -> FALSE

\* the stages of the parser's calls that are the head of a loop
LoopStages == {"loop", "garbage", "trees"}

\* the parser is at the head of a loop, and the step is an iteration after
\* which the loop goes on: nothing has returned, and parse has not gone
\* from its first loop to its second
LoopGoesOn ==
    /\ pc = "parse" /\ pc' = "parse"
    /\ stack # <<>>
    /\ Top(stack).stage \in LoopStages
    /\ Len(stack') >= Len(stack)
    /\ ~(Top(stack).stage = "garbage" /\ stack'[Len(stack)].stage = "trees")

\* no cursor moves backwards, and an iteration of a loop that does not leave
\* the loop moves the cursor on: scan's loop with a token made in line, scan's
\* loop with a call of a scan_* function (whose loop then goes round at least
\* once), the loops of the scan_* functions, the loops of the parser
Advances ==
    /\ scanner'.cur >= scanner.cur
    /\ pcur' >= pcur
    /\ pc = "scan" /\ pc' = "scan" => scanner'.cur >= scanner.cur + 1
    /\ pc = "scan" /\ pc' \in ScanLoops => LoopContinues'
    /\ pc \in ScanLoops /\ pc' = pc => scanner'.cur >= scanner.cur + 1
    /\ LoopGoesOn => pcur' >= pcur + 1

\* the calls of parse_gametree in progress
GameTreeCalls(stk) == Cardinality({i \in 1..Len(stk) : stk[i].rule = "parse_gametree"})

\* the number of structural '(' not closed among the first n tokens
OpenAt(toks, n) == Depth(Append(toks, WhitespaceToken))[n + 1]

\* the nesting depth of the '(' tokens: the largest number of structural '('
\* open at once
NestingDepth(toks) ==
    LET d == Depth(Append(toks, WhitespaceToken))
    IN CHOOSE m \in {d[i] : i \in 1..Len(d)} : \A i \in 1..Len(d) : d[i] <= m

\* the rules other than parse_gametree, in the order in which each calls the
\* next; consume_whitespace, which calls no rule, is called by any of them
\* but the last
OtherRules ==
    {"parse", "parse_sequence", "parse_node", "parse_property", "parse_propvalue"}

\* the calls of parse_gametree in progress are the structural '(' read and
\* not closed, no more than the nesting depth of the '(' tokens
DepthBounded ==
    pc = "parse" =>
        /\ GameTreeCalls(stack) <= OpenAt(tokens, pcur)
        /\ GameTreeCalls(stack) <= NestingDepth(tokens)
        /\ Len(stack) <= GameTreeCalls(stack) + Cardinality(OtherRules)

\* C18: on every input scan returns and, when it returned tokens, parse does;
\* every iteration of a loop of the scanner or the parser that does not leave
\* the loop moves the cursor on by one element at least, no cursor moves
\* backwards, and the calls of parse_gametree in progress are never more than
\* the nesting depth of the '(' tokens.
C18_Termination ==
    /\ <>Returns
    /\ [][Advances]_vars
    /\ []DepthBounded

\* parse has returned a collection whose game trees are nested three deep
C18_Witness ==
    /\ pc = "parsed"
    /\ result.ok
    /\ ret.call = "parse_gametree"
    /\ NestingDepth(tokens) = 3

====
